---------------------------- MODULE Spec2Model ----------------------------
(***************************************************************************)
(* FaceGuard image protection pipeline (src/src/app/api/protect/route.ts): *)
(* the seeded perturbation engine applyAiShielding, the LSB watermark      *)
(* writer embedInvisibleWatermark and the receipt build / sign protocol of *)
(* the POST handler.                                                       *)
(*                                                                         *)
(* Conventions.  A JavaScript string is the tuple of its UTF-16 code units *)
(* (1-based here, 0-based in the source).  A Buffer is the tuple of its    *)
(* bytes; index i of the source is element i+1 of the tuple.  A read past  *)
(* the end of a typed array yields undefined (Undef), a write past the end *)
(* is ignored, and storing undefined or NaN into a Buffer stores 0.        *)
(***************************************************************************)
EXTENDS Integers, Sequences, FiniteSets, TLC

VARIABLES
  img,        \* pixel laboratory: the buffer handed to the pixel routines
  orig,       \* pixel laboratory: the contents img started with
  seedValue,  \* the PRNG accumulator `seedValue` as the last call left it
  first,      \* pixel laboratory: record of the first call made
  last,       \* pixel laboratory: record of the latest call made
  ncalls,     \* number of calls made so far (laboratory), of repeated calls (embedding)
  em,         \* embedInvisibleWatermark in progress: its locals at the loop head
  emBefore,   \* the pixel buffer as embedInvisibleWatermark received it
  ex,         \* the replaying extractor's locals (None until it starts)
  envMasterKey,     \* process.env.FACEGUARD_MASTER_KEY
  nodeEnv,          \* process.env.NODE_ENV
  MASTER_KEY,       \* module constant MASTER_KEY
  privateKey,       \* module variable privateKey (the key pair)
  publicKeyHex,     \* module variable publicKeyHex
  ipRequestCounts,  \* module Map ipRequestCounts
  timers,           \* pending setTimeout callbacks of checkRateLimit, per ip
  reqs,             \* the POST invocations: locals and position of each
  app,              \* FaceGuardApp: the useState values of the component
  calls             \* FaceGuardApp: the handleProcess calls started, in order

labVars == <<img, orig, seedValue, first, last, ncalls>>
embedVars == <<em, emBefore, ex>>
moduleVars == <<envMasterKey, nodeEnv, MASTER_KEY, privateKey, publicKeyHex>>
postVars == <<moduleVars, ipRequestCounts, timers, reqs>>
appVars == <<app, calls>>
vars == <<labVars, embedVars, postVars, appVars>>

(***************************************************************************)
(* Math.sin is tabulated, since TLA+ has no reals.  Each table is a list   *)
(* of windows [lo, vals]: vals[k] belongs to the PRNG state lo + k - 1.    *)
(*   RandWindows: floor(frac(sin(s) * 100000) * 10^8)                      *)
(*   WarpWindows: floor(sin(c / 12.0 + s) * 10^6) for c = 0, 1, 2, 3       *)
(* computed in IEEE double arithmetic for the PRNG states s and the pixel  *)
(* coordinates c the model reaches: a first window from state 0 on, and    *)
(* short windows for the states that the seeds of the request handler      *)
(* reach beyond it.  Every floor(rand * N) and floor(sin * warp) the model *)
(* derives from the tables was compared with the double-precision value of *)
(* the source expression for the multipliers the model uses and found      *)
(* equal.                                                                  *)
(***************************************************************************)
RandWindows ==
  <<
   [lo |-> 0,
    vals |->
  <<
   0, 9848078, 74268256, 80598, 75046920, 57253368, 45018010, 65987187, 82466233, 84852417, 88891106, 97934492,
   70819995, 70368266, 73556948, 78401571, 66833349, 25081204, 27532283, 72096629, 52507276, 56385360, 86907095, 95958248,
   16379933, 82499022, 84504796, 59284045, 57883078, 61157870, 83759071, 23546769, 66812416, 18601072, 26861200, 73305038,
   11465568, 18666430, 85787093, 53862840, 31604793, 73311952, 84520843, 52573714, 19251054, 35245341, 83476488, 31227452,
   53386763, 73472405, 51462960, 91758433, 75920404, 51501818, 9511483, 48266413, 89979130, 47552478, 26480845, 80071391,
   93788977, 22299916, 93033507, 57003028, 60381967, 86794901, 88459760, 210246, 23193107, 51862168, 6815578, 46532543,
   33627620, 80431126, 37395317, 83645905, 76368981, 1585807, 84559875, 73312924, 13460766, 20057255, 87824330, 44611001,
   3200732, 43800514, 15529959, 21633691, 83027336, 94058124, 66636005, 75117511, 39303841, 78587300, 80145323, 17147361,
   77454343, 77390275, 81280095, 31658136, 43588902, 57871783, 67913584, 86314423, 75968374, 47164625, 74999191, 17445606,
   85054177, 26066363, 73219149, 85513893, 43956331, 80941067, 3886813, 53340247, 13933642, 20590646, 78309559, 58985619,
   11842123, 52247235, 31538963, 65093104, 30131108, 95408113, 8256737, 672424, 77105017, 66079615, 40498132, 66128632,
   35871460, 57562142, 48164599, 86861040, 67932771, 55454417, 77404991, 1312247, 96594403, 13653732, 49928325, 46391260,
   84061015, 51620451, 91731217, 40218832, 66056757, 13519055, 35703708, 98814156, 5237488, 5807754, 96627439, 80172253,
   53811852, 14571252, 40965274, 97317131, 52583790, 22144226, 96492066, 98241550, 27780232, 72794498, 15637282, 98131281,
   67112259, 1323223, 94554970, 8679435, 91401823, 94670865, 80257487, 54048219, 22360803, 97877771, 53358042, 21672389,
   73642661, 85998823, 89340998, 4082392, 43832906, 11800942, 60624447, 89766078, 63309879, 79536679, 92786806, 85484614,
   16423481, 34253778, 36707315, 46679940, 555699, 58429196, 14083357, 11639324, 27027860, 97492812, 84068658, 97001669,
   3593127, 24922322, 80968745, 49724590, 79301910, 66417661, 85183427, 21461495, 29062032, 93801801, 94513763, 56219572,
   84883449, 83905864, 54726705, 52585068, 87124875, 87978787, 8382163, 34852699, 90026350, 51219954, 61828409, 85970706,
   30624856, 23697323, 57959466, 58102418, 32767678, 92818032, 66912028, 66409896, 79105630, 21302179, 38868197, 6812750,
   51549211, 17132764, 80924817, 6511437, 37006557, 74367714, 99996228, 71855026, 21192217, 68065563, 19804581, 61397074,
   22110036, 37286710, 88980629, 83650755, 19658929, 28251844, 56268293, 31839466, 97038158, 87909180, 82904779, 28145011,
   74862671, 1700837, 40264645, 81772561, 49889871, 31197570, 40535287, 8186087, 69384347, 1548706, 85933150, 46740802,
   43399590, 43136735, 10918489, 27877060, 5791707, 85636711, 2354736, 25197902, 39681125, 15902084, 52411583, 90518918,
   56292491, 89797142, 56339220, 42254959, 59810118, 90012487, 107374, 80889096, 12505645, 90550253, 76291460, 32783816,
   41600988, 59504109, 28310427, 25048439, 68037805, 60581383, 82865060, 46357625, 30360001, 13749637, 76886558, 17854673,
   85242177, 5097994, 70939714, 32645574, 73480674, 97884973, 87940237, 50043901, 45719155, 82654818, 22598719, 15338673,
   47805436, 37265458, 86657990, 48053161, 47343054, 89491684, 83707945, 88518029, 56581161, 88338861, 21491002, 29489429,
   74057334, 28487493, 8031781, 55514915, 7401625, 32333897, 96822393, 16448114, 96604938, 41826264, 59504870, 26321783,
   38725243, 55582156, 71749593, 72087001, 98506793, 99708898, 46973619, 98556466, 27285107, 51180647, 98346878, 21986283,
   57234143, 65543595, 6756837, 61398305, 89803780, 64039108, 726865, 74803247, 56089678, 85229001, 50604392, 21845600,
   57860636, 73416102, 29865437, 24483172, 8727884, 14524588, 64656975, 55749932, 18708698, 20489022, 28783654, 32289465,
   64336219, 69738337, 708226, 81718850, 85405659, 28937225, 99105187, 27103751, 50601529, 26313478, 65763750, 69442757,
   24314367, 36047978, 80087191, 79352726, 6403608, 46804855, 67906219, 39577117, 35911582, 57653077, 84527027, 73216594,
   25310388, 40476063, 45059076, 52820815, 81190467, 37597584, 52368648, 93308371, 55498763, 3938754, 45805582, 21499383,
   82756931, 12877380, 55864224, 44124545, 48686204, 2277958, 46624680, 57944968, 41486332, 10837124, 38496372, 75144240,
   7755956, 74021655, 96769705, 19810238, 45812915, 25902891, 80171142, 1791283, 52932659, 129260, 6615020, 15718210,
   52156211, 68436950, 24628611, 49530244, 25721561, 27616305, 62749644, 76939717, 1491192, 65686442, 56333576, 96468349,
   73241170, 1468582, 49486850, 9457403, 25466512, 18060573, 86302682, 1755093, 47870923, 27929013, 65970913, 18590686,
   19041798, 9366270, 44877306, 78947615, 97680637, 64674138, 61131017, 42730926, 62426632, 29744636, 2577291, 97831154,
   67137641, 7186846, 29288846, 31767223, 29667421, 70215238, 57761709, 63110260, 93265774, 91657638, 13403598, 16712343,
   43809306, 29093809, 82265279, 63039673, 67209598, 93939808, 36270438, 53335002, 81946775, 82964280, 98869779, 17608001,
   53921779, 53508409, 5966651, 86535173, 72460476, 4237371, 66675417, 4007607, 84940128, 76505878, 5929973, 41514354,
   92412479, 41260755, 19937155, 29929556, 47206874, 48266506, 67042996, 55532498, 57972528, 22694152, 26482909, 21285185,
   99997352, 25475338, 65538942, 76951425, 57610474, 91169660, 79016666, 6755616, 8251331, 15986953, 83243478, 21022497,
   70956234, 80068859, 87571041, 71507201, 56568315, 87229953, 56816409, 65391362, 27975617, 48723213, 59225902, 96214270,
   24114112, 86403815, 30525190, 26108597, 1641251, 37677766, 11242630, 91629737, 85852567, 51572706, 66604502, 81620546,
   58904950, 81257846, 41133562, 88258124, 62319381, 24629505, 84164165, 31551674, 9591189, 45992440, 62755452, 12612092,
   72215074, 40805711, 66166543, 86068557, 38049771, 42421037, 5170156, 39431549, 60865088, 79483582, 13917222, 99553568,
   45907430, 18432255, 79027605, 770982, 35696276, 42847984, 310292, 50250416, 69628417, 19090549, 30925369, 11492923,
   24483318, 26081328, 41352545, 75062851, 38861456, 7546642, 53171302, 42100011, 93349202, 79914631, 76282790, 92331198,
   24771196, 64857138, 13784347, 23077252, 4324733, 12769124, 83006736, 25393132, 63242453, 13536648, 19482534, 21846480,
   53126427, 62728338, 86835221, 5851106, 84729763, 48185230, 19970129, 86509707, 98291074, 79757911, 20620004, 72058966,
   66112943, 75715505, 83234122, 67178934, 75018442, 47037958, 42147110, 87617489, 8865234, 74123972, 75880408, 37384311,
   13001816, 22076387, 32008014, 55065886, 45389361, 94973520, 24406758, 65055352, 90498188, 94884561, 25832491, 55688913,
   30297809, 7733618, 60664531, 70508573, 55985407, 81479955, 83541867, 82081799, 74316526, 31431083, 66320416, 6910250,
   90019840, 42780107, 11368753, 81862836, 61556371, 73412720, 36140079, 27932224, 9219176, 87835859, 61779217, 64606626,
   5528355, 15081928, 39335646, 82788236, 10229293, 13410957, 93536712, 23983321, 70550472, 9008905, 55800903, 63604229,
   8898154, 76727298, 37918890, 4715529, 5233633, 65846420, 29831657, 88542670, 33851159, 13745467, 30866040, 3068293,
   74858722, 15908486, 2887066, 35574058, 23362185, 3224361, 80987389, 28287058, 23897336, 20493166, 94728164, 35536276,
   83035620, 620862, 79578385, 17448558, 55976046, 20383735, 89478066, 59206258, 25642334, 68171133, 98518082, 26151268,
   84043807, 74735490, 72128428, 80084783, 74510230, 83139954, 77535528, 10175721, 76773231, 75040449, 69744870, 10578521,
   15259540, 28488477, 34335939, 80136358, 61583255, 14600900, 29502920, 78060754, 43391526, 87259460, 22043332, 51939710,
   22905605, 32958986, 67465982, 54713095, 33233267, 39181420, 77637440, 97873807, 9541466, 61624518, 4383977, 90062623,
   98314963, 15185525, 19597049, 66711335, 99095699, 51384284, 96610903, 47683721, 85785720, 88069078, 88565961, 50766466,
   88621471, 60209453, 50480137, 36602357, 40939385, 39364872, 73337391, 82893196, 67392143, 33151699, 46927787, 88322636,
   60367040, 95037912, 93210037, 50335766, 84219911, 65143735, 85535921, 1621636, 96481970, 75624303, 61642751, 69978193,
   64624294, 57347140, 68657283, 19623891, 87352229, 55683789, 63479000, 95641768, 29140211, 14706214, 5119741, 1911168,
   88886269, 9947348, 11427214, 78184368, 70923225, 82552135, 18870382, 80976217, 77373512, 56896547, 28168975, 84054345,
   92351086, 18755720, 2690748, 22890423, 8967231, 29756492, 74215629, 70322200, 77366569, 40741045, 59353983, 74587300,
   19079842, 18355322, 37907535, 55898411, 68512072, 86330960, 98649724, 56935533, 64409461, 34150868, 77317343, 51923770,
   62197398, 81076933, 9273440, 84481747, 42331166, 62036074, 98730314, 78646242, 57285968, 89250702, 21683683, 49263965,
   94898380, 86484847, 38180945, 15549212, 6015736, 90814384, 64385507, 93037196, 20995313, 61887363, 12355249, 32782684,
   87825313, 67787048, 21831804, 82737188, 60053575, 38345872, 66021367, 5336346, 68800344, 14881174, 23735701, 86893304,
   64294662, 20293635, 12853385, 97507022, 78687009, 29424210, 14113225, 46283438, 79243305, 35100900, 93680038, 7322298,
   32744219, 877161, 52797019, 9803877, 65852639, 34866259, 7007222, 93335346, 13109735, 27318307, 20762879, 99225246,
   40568481, 80504589, 13145561, 3379038, 15894696, 17069478, 57451462, 15763383, 52296630, 96275841, 94430790, 81564775,
   56223924, 75443188, 52006877, 96913829, 53296976, 21911209, 87650135, 67583012, 9998517, 32813730, 37843910, 72688954,
   53331272, 3682427, 90503206, 54569501, 83078966, 14072183, 68129363, 15362574, 96214384, 75529616, 19355779, 7314189,
   75442100, 92564514, 47941364, 43603267, 80894967, 31645910, 40015451, 76666049, 47833692, 45431459, 28680402, 54218130,
   65110952, 32263242, 93684278, 76005844, 51186001, 63788265, 95687754, 22210971, 14013979, 40582900, 56801127, 3443581,
   91565588, 5848598, 74350099, 71806131, 32654242, 79262048, 6424635, 62557965, 34009634, 18136807, 18904640, 28988920,
   17702112, 13327969, 83585028, 60276444, 29556605, 30877786, 50093883, 82146354, 46220402, 8331545, 25952363, 34053999,
   53513543, 25195020, 68480303, 92472629, 95405320, 5975863, 65419737, 83990597, 55748628, 55097643, 77356795, 18662002,
   33757535, 18407405, 28297391, 59504591, 81916851, 23277611, 20578277, 78825382, 1676369, 32320292, 28621729, 74271353,
   60145797, 15061431, 50601781, 46277280, 66199560, 34706822, 12690067, 22072653, 26505396, 27227603, 90559060, 94227631,
   30566754, 12376156, 96333785, 44305166, 37676321, 28385941, 23435002, 99444675, 86129400, 32818907, 77850055, 91202631,
   51679479, 83428849, 77974660, 30418386, 73959143, 32885894, 65384006, 49860791, 49719193, 7718979, 93973089, 47711410,
   8798541, 14005911, 84183445, 76718065, 768185, 66187794, 95355336, 50565393, 21201762, 95669400, 1574421, 2103243,
   95205679, 16032060, 86183026, 86659192, 52262798, 49154354, 39127410, 69884707, 98022322, 66035106, 9017022, 2827907,
   8634045, 99195650, 23718109, 75292403, 33793658, 78488959, 38977181, 17387715, 85864353, 99984980, 21120532, 30497446,
   4945125, 12641939, 15306307, 76706221, 49207204, 78796419, 93446383, 40548499, 43913966, 4215356, 89119906, 50522703,
   5043206, 71558171, 19562681, 77160638, 45386329, 76560770, 89724703, 7392126, 66176930, 25483936, 54653559, 75878003,
   37116222, 71517489, 78945594, 40435925, 31682802, 38406490, 38688249, 65781510, 17266085, 67494759, 11069785, 97863130,
   51427368, 85287168, 21883137, 15550937, 67989843, 78735372, 49779820, 20486131, 32965054, 41097063, 85302801, 7275152,
   82770359, 78186119, 26466732, 91198727, 36922858, 86325155, 77536088, 53365875, 29761830, 11795303, 46394206, 31422524,
   63090042, 13210269, 44608331, 38607232, 24123744, 27177168, 34313435, 43132877, 22562283, 85754652, 59264473, 59603888,
   32289764, 76569049, 35479401, 40260034, 21106380, 80300189, 70702330, 4160280, 93804300, 75398900, 95767760, 30224132,
   68916959, 43660462, 19004884, 35893838, 41338188, 64716582, 34204403, 50614765, 1354167, 51892853, 91801597, 52325432,
   37905544, 53728538, 92212359, 38083013, 89237901, 49531360, 21156219, 91616624, 5520270, 61075150, 94945298, 71326265,
   13935282, 85981024, 42311061, 42085196, 49439309, 82334547, 28946159, 81660053, 1566622, 28113654, 49093980, 32382440,
   77063604, 84928294, 88776878, 31913158, 15533780, 70105940, 29018920, 5965303, 60346951, 19622489, 83960724, 11469880,
   12449795, 29716623, 21506743, 16739726, 56284893, 45365351, 87236823, 76087257, 97378585, 794831, 76547624, 57201847,
   96834221, 46678519, 89328038, 36915462, 4691428, 75577814, 68610890, 80248988, 80396705, 67530331, 96726113, 26637112,
   57914540, 50759925, 36480036, 61439059, 42218096, 41128400, 28791481, 47290673, 41434673, 29011373, 52407736, 19565124,
   71043573, 89779821, 89222425, 87375989, 14830181, 32357707, 99907693, 81192598, 27756671, 82080976, 7382857, 16629043,
   99253467, 3482064, 9577337, 14153143, 66310291, 22871222, 74545726, 62925946, 64958364, 64440894, 96579078, 47405040,
   93414947, 12088439, 92626950, 39205148, 68206475, 38236246, 16563868, 50914660, 87471540, 79570875, 29998906, 54352885,
   57929363, 64183526, 23371953, 89148051, 69918436, 60514082, 49666421, 6261548, 14562831, 53875445, 43172179, 19118631,
   5774721, 8468317, 22184180, 78258708, 67792955, 67578023, 52695674, 62222633, 82299291, 70537092, 54648148, 17717473,
   96136076, 16284214, 30801649, 7118352, 5058789, 63326699, 88785874, 4091081, 5288984, 25907631, 93153407, 21162681,
   21993689, 65296781, 21749250, 69250793, 76897826, 56348412, 57295240, 16404820, 53364900, 46316200, 81160708, 61137960,
   17629566, 27749741, 69585396, 31837539, 105093, 80924981, 56880590, 45933910, 7454689, 75414130, 6189266, 35072900,
   12176224, 31777732, 19010271, 66417576, 57793929, 90226309, 17295655, 37515370, 38773689, 78340779, 90487551, 41285334,
   27621250, 3160620, 12049041, 88904975, 74687903, 72249092, 95480080, 98236179, 86335429, 16707079, 33120584, 36168356,
   64272710, 67718372, 65837544, 4203252, 34167027, 37015151, 49993174, 65462857, 39112616, 79396531, 2161512, 36805468,
   81451362, 88532059, 95589221, 12658066, 95018309, 61503963, 7365363, 83237686, 39613883, 20068718, 68605929, 43064072,
   78424693, 5633667, 91389263, 23838132, 46638272, 7329205, 99338601, 16560240, 42165510, 43096407, 12710170, 84709448,
   36751494, 6222317, 24018753, 41695635, 5774131, 61269452, 72423065, 6362997, 86955366, 99355602, 2786816, 74975264,
   6954135, 86205158, 77199909, 3343578, 88356275, 64513577, 38359137, 62342265, 12133250, 93366257, 23779681, 64240186,
   44495703, 95886767, 81180842, 53543491, 27909838, 77675353, 64487946, 6961103, 97178132, 59217694, 69823303, 26548812,
   72657279, 2519626, 3638652, 83687481, 57242359, 41629675, 37368643, 75303928, 27373965, 82815323, 2295523, 21975438,
   24834964, 68603150, 62301946, 34686030, 81573126, 35988451, 15013109, 86580043, 79318615, 44231407, 9591761, 75018960,
   18807779, 32556913, 70112993, 50276517, 45416201, 11157871, 5184755, 45759456, 32806398, 8542491, 83112647, 75959007,
   53971452, 49674934, 70399233, 73851795, 67323430, 92798189, 44519261, 95097932, 70285223, 64164255, 50205732, 93006619,
   80430933, 56610910, 32898362, 45429626, 83192694, 56877421, 52943430, 8683648, 88043216, 9153885, 26295441, 76127245,
   84009994, 61403552, 49112177, 97522083, 59824473, 61843712, 93445204, 79745760, 83387501, 33395320, 90330679, 43075363,
   34282801, 56692989, 2799775, 2442371, 37766562, 30272689, 68628911, 79621802, 93816780, 81014896, 50831677, 60418484,
   42395708, 47543114, 6428304, 78539318, 93518268, 93497306, 86377373, 94436599, 18336341, 45258678, 46464404, 80774313,
   41576743, 83102020, 97695360, 70611511, 39941679, 54203095, 88827345, 85797671, 29395409, 58450907, 51422218, 66964187,
   58004654, 90180610, 74487837, 15798892, 34503710, 17326040, 92894896, 83831181, 31416171, 43808856, 78894209, 79679899,
   38095954, 92690866, 93171575, 92829185, 22582087, 16530060, 71037270, 84277488, 76179251, 63955699, 45534125, 25546074,
   96908640, 92734602, 59995780, 37460102, 76587593, 64173031, 25539578, 67976811, 40615155, 16009492, 57377240, 75743247,
   25108025, 75876938, 75199386, 18912312, 52093231, 9049259, 68040680, 54740269, 84358048, 80753338, 97884047, 80471966,
   24067480, 35090347, 72665365, 16248086, 89183460, 85389540, 95023492, 23044598, 13424596, 28212572, 12139008, 43029342,
   14529639, 959927, 97038992, 63973586, 22690649, 81861741, 50856072, 84426660, 35578874, 65072887, 19392834, 71108038,
   59835836, 69349111, 17920881, 94631174, 19105008, 9930086, 51901506, 91266078, 88172181, 47155034, 11583289, 30772836,
   85690971, 94191759, 44841163, 21367939, 50346205, 85429688, 8220860, 70078137, 3507762, 37888986, 25480436, 84628235,
   59619431, 93361891, 12041069, 78307672, 44299153, 70045241, 80868653, 56812734, 43055768, 78965989, 95641468, 18974206,
   36161873, 40397129, 10452598, 3141096, 65235874, 14688819, 13374945, 43944183, 71752897, 16190937, 71745864, 49290582,
   16539264, 18986899, 260865, 83580514, 73833673, 41878929, 25012580, 76750251, 62989271, 93951923, 27490377, 28060876,
   68389736, 56417752, 49493971, 79951260, 23786605, 77397468, 48158391, 33857938, 94410157, 78691805, 90110666, 91455960,
   12189031, 52177787, 54619679, 59903760, 80699208, 95149078, 34441364, 69663327, 71023277, 77995576, 11424997, 29317265,
   42184798, 46737664, 91207760, 4049955, 15030133, 59525381, 35508881, 21470922, 73094391, 97078920, 20522346, 18310880,
   26878962, 34760290, 43374111, 12267548, 15991618, 87489878, 61465168, 36740985, 51864430, 46249565, 65093948, 4447353,
   35414526, 5781210, 38498445, 9393599, 44876823, 51380787, 88718770, 8708871, 99492187, 9369951, 88555670, 77152702,
   99149705, 94066720, 81837544, 37335087, 81886542, 32376578, 39921448, 10267334, 23342748, 67351679, 2600724, 99009351,
   91377586, 53616327, 58077230, 1654078, 29617770, 97864133, 29821632, 60316092, 92198746, 1388836, 95399321, 92782337,
   75894321, 53058888, 92069607, 10050328, 15097055, 7764636, 97792642, 36946363, 88466016, 75710529, 95281432, 57247466,
   61959641, 20462819, 66687332, 76535232, 89540638, 77141410, 37727330, 32527929, 69256886, 20250518, 7040972, 44187113,
   23527559, 40533590, 81141357, 93004255, 66252271, 83638193, 97691499, 75894033, 1523450, 52179001, 88707179, 81290912,
   27614895, 74742703, 44357694, 73700666, 14805227, 18239984, 10655235, 73769462, 73076728, 68012173, 64452130, 11362829,
   73360871, 94093395, 89729780, 69854245, 32595187, 40375473, 18270190, 23973212, 96201888, 94001525, 82186663, 41670066,
   66605691, 91760641, 57055239, 49108394, 61039393, 18223525, 80084366, 13313564, 50869267, 38722434, 19339996, 24258380,
   29094669, 3677373, 27030253, 81248577, 45213838, 8394478, 77059866, 52803946, 9236368, 80840247, 79387716, 21825970,
   39849349, 62682222, 19535194, 10703619, 37091713, 8810007, 23622727, 4795758, 42870843, 58640539, 82399759, 94605337,
   17051550, 53500490, 8209634, 56651346, 97734065, 79087646, 92748552, 51131283, 15902871, 90233561, 1312637, 49076396,
   43694282, 32517640, 71831579, 68697890, 18964440, 62449939, 37833432, 50494148, 70703098, 36519702, 41563821, 61075886,
   21212866, 74924351, 73217077, 9589730, 17264687, 68991176, 49222309, 67321703, 12637981, 12984201, 53249333, 59041974,
   96656408, 51027092, 14470175, 55220973, 40778559, 55068296, 16638642, 1665050, 90695918, 69358930, 66826520, 2874462,
   16258189, 81836820, 55279565, 52236286, 23596551, 10291926, 25108259, 53710632, 85606673, 7690982, 53986742, 35205322,
   82978431, 46462811, 19003764, 17926865, 50575473, 92183133, 92619733, 60822773, 27303038, 3925571, 27696887, 46020919,
   95100842, 91722146, 67221030, 72097609, 78651059, 48321546, 43814797, 74206778, 79643206, 69360212, 81779311, 28275925,
   85166859, 37279612, 32611362, 80532850, 2016435, 42787375, 96828908, 10732318, 1032217, 7387661, 26074557, 92618479,
   76804290, 90381507, 82869223, 83379523, 54359660, 88345268, 99103120, 38575077, 98171890, 24736744, 44304635, 72539559,
   28887161, 81649955, 31890138, 25365722, 60285942, 47065437, 91469168, 57448033, 86750710, 1235591, 45788193, 97355412,
   83558675, 48783381, 24045714, 11568002, 13071030, 37636168, 70248332, 90374434, 95044161, 59401255, 69799134, 19745552,
   99144714, 29199793, 1905313, 28796771, 854606, 59900151, 60830367, 20243678, 63600873, 69650046, 28823976, 57534839,
   16744470, 19143177, 80591722, 5412290, 19883439, 30465776, 94267051, 60099907, 66503458, 16863350, 11415594, 98996820,
   15983252, 55536742, 15970954, 40200911, 36811265, 49393368, 96368983, 3600978, 73238096, 95378569, 27542904, 26425986,
   23096858, 28819973, 24506127, 8717208, 90338510, 75766853, 66987083, 6880913, 29872098, 84601512, 86723546, 6106554,
   64049027, 42554339, 14659700, 83426417, 73022041, 87934979, 16985293, 94705597, 38770865, 44825685, 72729629, 63179678,
   3512337, 96051884, 48505479, 26177231, 24991856, 10723650, 83568770, 25409880, 89238037, 80073069, 53121659, 91589868,
   90456608, 87700501, 29445870, 50656685, 93790731, 70041664, 88683354, 73994107, 35007533, 15023329, 89129631, 51302124,
   91891330, 40899867, 62252089, 28561524, 41666016, 65603002, 56929253, 92151905, 38449213, 57549338, 42105193, 30846148,
   95067934, 85750960, 1133357, 12492256, 85677802, 10229389, 50668056, 40188935, 4501116, 53094828, 85724235, 16159558,
   66634087, 77084295, 1038023, 47686745, 73916377, 70964234, 55338147, 9906534, 93423800, 67289044, 54535323, 97674020,
   91559022, 55638573, 42609444, 9381474, 73211836, 67513366, 8661191, 86934258, 21450896, 9496507, 92950854, 70458999,
   81686447, 29433479, 19144147, 36859064, 71383975, 6102642, 97153665, 11563320, 20706222, 4277162, 34798902, 27561202,
   21944321, 60303788, 90440140, 65591858, 78318203, 32382252, 83724161, 75270729, 54437942, 30747491, 16810895, 8283792,
   62909287, 78071858, 75549641, 94424386, 91998537, 38902052, 80184827, 3146380, 13143254, 35971923, 25217931, 87575663,
   61232835, 56721647, 27625949, 85235659, 1665512, 36408587, 95708197, 17298472, 96802482, 33954303, 80963929, 90574621,
   9662370, 88449741, 33250534, 75035345, 41874934, 85344369, 71246437, 55639524, 11300677, 40128541, 68968451, 69371209,
   80440543, 63880034, 19409578, 48587570, 52148863, 87459570, 84157502, 49018622, 48134942, 50845082, 67212475, 45398985,
   33000642, 52877684, 13970205, 24922075, 5418295, 95786140, 73148704, 63425480, 21700516, 52253429, 90549221, 16654871,
   56076420, 76626338, 6405571, 52863377, 33608971, 37672188, 50955913, 4049739, 99559025, 3844050, 3314404, 71132439,
   51484987, 71421872, 63457555, 11510087, 16739708, 94930673, 64072221, 82331325, 66336210, 76722895, 68795525, 81057103,
   24261309, 63906059, 56613844, 11056956, 20541213, 38336412, 84324681, 64067885, 63769392, 59133425, 62493244, 20217543,
   15550241, 20772228, 23773299, 91623776, 76344687, 22897196, 41973888, 52476191, 9110420, 85261174, 60169827, 60000537,
   38443259, 99752202, 38656337, 28424253, 86799644, 50557138, 59751824, 50153328, 43422407, 5604154, 64114330, 9006897,
   528432, 70101743, 54474300, 36088459, 91447024, 99205267, 7015278, 17513796, 36029875, 77706445, 87965024, 34899736,
   70108499, 89217681, 81440404, 52650254, 32148685, 7150445, 31379627, 45630752, 91012977, 97572253, 15183188, 26690304,
   45988175, 36634436, 26477773, 64828672, 86072214, 17528422, 91362198, 20625531, 57402008, 80030565, 54567377, 15210643,
   16546674, 25879277, 54472202, 62840825, 12550244, 31597392, 25582806, 61010769, 24219872, 11214957, 19807818, 63060875,
   11171178, 58772430, 8328139, 2696853, 53480189, 47408661, 32228396, 60370432, 85852873, 51796135, 13684144, 14346172,
   86472042, 45958087, 25277169, 57154808, 79604633, 13783531, 86177842, 22954637, 50540295, 60649674, 88691009, 26694853,
   13136479, 28730017, 33567535, 15728369, 36358081, 39027238, 10153852, 16277885, 33385150, 26120282, 38902872, 60397266,
   54710183, 93705754, 99896587, 79445285, 48665103, 64042222, 40622575, 96458686, 80845876, 82011909, 46127506, 81267532,
   43419555, 92483268, 43636634, 26602561, 55829519, 74030635, 36764822, 53335635, 75547464, 24118510, 47854359, 10191739,
   29463947, 57962512, 76252571, 34539137, 8990612, 61340758, 73313388, 11919229, 17339659, 74237173, 19583781, 25379445,
   20977514, 37958292, 17839636, 83835205, 81308729, 46610677, 64004320, 94499805, 66723847, 36817518, 38740531, 75273064,
   34025524, 74571143, 98391130, 70273450, 55729993, 94645140, 92949207, 97826486, 73447352, 33317353, 76620740, 72027427,
   67136480, 3547962, 6989654, 74777238, 48642137, 89711465, 1799213, 59566477, 89086515, 19628370, 25586149, 15342001,
   39402991, 4329389, 25131698, 95216446, 26571498, 9473028, 81411692, 28735787, 56736536, 38748062, 91003763, 70415710,
   3705895, 81703151, 80285550, 17315554, 46393792, 6391003, 93434552, 58492321, 39785337, 89021949, 75514608, 19267514,
   90986755, 21519414, 20480110, 96931125, 11965195, 91208145, 85792981, 34362070, 5918695, 87659233, 81277849, 84806563,
   55466989, 90319230, 88818431, 59541013, 7340934, 89266283, 75028219, 19020362, 58909934, 54471894, 89037021, 52179226,
   69566298, 89895280, 50244809, 4047581, 88938658, 4041084, 43976232, 28859930, 43346369, 24774332, 37819597, 81516573,
   92504195, 48440327, 14917537, 38133737, 24764251, 53864344, 55328220, 78963124, 41666455, 86600085, 99566998, 23112992,
   28186831, 88356334, 25929781, 50597454, 57372349, 73376414, 17174110, 90534253, 46161114, 73011695, 9636861, 63828729,
   33484823, 58330419, 66086497, 98973481, 83707216, 75870240, 10042002, 59286014, 75893912, 70978802, 56459684, 28664995,
   62731815, 97213794, 92033518, 12299256, 42367703, 68226861, 86259166, 40294707, 4821240, 9520981, 53731385, 22257628,
   47130381, 15834288, 22106480, 85631288, 62689199, 12963063, 225699, 20895143, 92147789, 47859120, 51954548, 56986870,
   5749504, 7428919, 72861934, 43788, 71276058, 84331616, 63997273, 25608905, 17180727, 19246611, 40913757, 8326009,
   29048801, 31883282, 33298087, 93908353, 75950479, 8198261, 29606359, 79045274, 23125556, 82386014, 51393784, 74139291,
   42262074, 3491772, 74852419, 47376247, 84093185, 36715244, 60005163, 17951418, 64413363, 21950681, 61068134, 76280415,
   8827696, 22787582, 91650487, 34809534, 74714773, 93702971, 18920470, 89034576, 34363039, 36280311, 7176720, 22388948,
   81759980, 70280027, 50660438, 97541392, 8511890, 65414732, 42294629, 99911339, 9242071, 85138249, 4112706, 34317970,
   948899, 57010732, 98399104, 30760116, 15008275, 24432188, 39211802, 68043113, 83863279, 21031180, 52458872, 57036438,
   32050130, 77617427, 83439404, 31327419, 33517658, 19531976, 58380796, 88644713, 34690091, 37349249, 42223733, 9414404,
   47594787, 50756107, 81993253, 81484670, 25591880, 6145077, 79618670, 67590977, 28941679, 76301824, 67405520, 31781447,
   57997899, 91210763, 13632183, 26255049, 37643337, 97542452, 67966413, 59693591, 82909050, 72838318, 90707422, 58503331,
   83164483, 88992396, 73573569, 47914457, 7333946, 10341269, 67565426, 24113804, 51403476, 80318957, 73290525, 67520916,
   10736061, 56212680, 1165279, 61172365, 94702856, 77013376, 19525818, 89311649, 83344005, 44760707, 96433842, 68310204,
   60886520, 63005483, 50365476, 46635442, 64514518, 47271523, 11030766, 79994727, 16610193, 91988556, 98934334, 39558442,
   26653651, 30295226, 70529975, 50127462, 54647755, 11050784, 33547313, 36098768, 72292112, 42483118, 73490649, 67880824,
   52152940, 59955580, 68302511, 4024305, 45845074, 93393306, 78355393, 30688556, 51763397, 79959769, 77499632, 33013480,
   43093730, 61228600, 90345288, 19164184, 55376370, 2324842, 17581096, 82702535, 20774832, 52628500, 80284808, 71468791,
   40520214, 27479197, 77354515, 93372434, 35787421, 64081290, 42800046, 91682187, 87714929, 43900086, 57681397, 86631587,
   49768496, 26948201, 53072806, 36508522, 27019845, 52107760, 58894207, 82276519, 57102995, 57448611, 2460335, 52775304,
   20046068, 65880771, 46956033, 24007047, 11710405, 39088993, 76422877, 44007824, 33874726, 8520784, 20689264, 43713282,
   37971928, 50914134, 834450, 57060924, 84868172, 20582807, 30946570, 54994610, 9332537, 60616599, 61216506, 22646616,
   67450667, 4802619, 90405359, 34130065, 31306353, 98177105, 75522879, 51143685, 2650886, 75743620, 74567767, 31841403,
   91924470, 85866932, 50628767, 45625620, 60258556, 89439705, 17505254, 26979357, 79655432, 47273103, 26924487, 49672163,
   45117807, 82281073, 87938443, 34672335, 20825206, 36487216, 75794096, 7795894, 6284884, 18843153, 1636553, 22982384,
   31867768, 12255839, 64634945, 11069576, 23640894, 89763464, 56479497, 18105602, 64018514, 12447515, 87489230, 18032832,
   66941098, 52275508, 70397711, 26532842, 48439890, 12545767, 22437973, 93361680, 11548245, 12568475, 70445679, 12624895,
   98973855, 41597248, 60596229, 83867809, 31298198, 87497997, 65587821, 8898052, 5970553, 58597784, 3017300, 46188428,
   57475025, 61791092, 20136253, 56361936, 36351391, 35266542, 75455893, 11251775, 39571397, 72870909, 44360217, 54499119,
   36433816, 57374017, 56031182, 29609582, 78421955, 86292803, 80339196, 94132192, 3163345, 64686471, 88907087, 96604885,
   23034818, 92341774, 20203463, 91498084, 30416283, 1837237, 40996302, 38126660, 9871196, 98643157, 78601386, 81304197,
   82573383, 36903449, 9753294, 1916861, 47712240, 17497919, 13600786, 20389082, 97087757, 156294, 17443461, 34491536,
   5097060, 30169878, 77769412, 51832160, 84880338, 47504372, 33870361, 1032779, 982354, 5263659, 51786431, 6606321,
   64119145, 26597385, 15776876, 12764898, 47545603, 93256130, 77926837, 46107456, 63078069, 69979945, 90491169, 95853077,
   93053932, 24124592, 85824907, 77121586, 28829484, 44357668, 18114672, 77797453, 42051604, 46241974, 5693692, 27978658,
   23259706, 8853123, 12603135, 99745741, 92644005, 66362463, 30706066, 87412253, 90344190, 34360279, 64045124, 73855415,
   43806616, 81102836, 97662404, 67359271, 70823383, 74595870, 34689811, 98147000, 75109985, 34602160, 41143291, 23846974,
   6686338, 95198794, 84624078, 60734789, 5943651, 152571, 55027823, 75212377, 44004162, 50717700, 29361296, 84721472,
   90972979, 61584422, 25472584, 32514911, 19272393, 66654703, 99132822, 85351672, 85017780, 82963609, 93913698, 27354995,
   96824792, 74240365, 22188634, 60516234, 70818719, 79456746, 89724731, 5613095, 91480517, 18500417, 993550, 71101255,
   99742828, 5869307, 94718436, 52902182, 65950538, 12529638, 4284029, 76858078, 86207907, 27110349, 56473771, 27132197,
   89725468, 37378786, 34633151, 97554740, 27844943, 53748505, 96913148, 16141969, 30660289, 32235838, 46770990, 5295099,
   24741210, 49655355, 35231188, 71322831, 84894202, 90573730, 52398855, 46925080, 61995059, 36667563, 53441777, 99377333,
   26156889, 97880257, 10206247, 74547572, 2158378, 4436022, 9892072, 30809816, 41758802, 38905111, 20885097, 19177900,
   91767272, 63583240, 53534255, 20825990, 90754790, 44981863, 41275178, 32900257, 53225380, 35987485, 49213345, 30061995,
   89206617, 6202468, 14658087, 26685277, 81473603, 37298782, 27882024, 56660325, 69926149, 47114095, 58571838, 82198616,
   74314691, 82887413, 83903626, 2762176, 40187250, 65564372, 85314201, 49768164, 36911632, 22843604, 80826639, 7243436,
   49230664, 83570675, 91167951, 65958645, 51104686, 12834429, 1241715, 44931856, 8271119, 91946293, 37703560, 4311249,
   23992140, 4213375, 87168225, 66598691, 35941048, 50100297, 17754829, 39129329, 72789243, 81927032, 9635481, 71722816,
   76208166, 56840530, 14471044, 47829053, 67254341, 11241279, 13146387, 13306217, 4238169, 11583454, 85252973, 39756528,
   83085007, 71890132, 77964975, 57677094, 84558658, 88340989, 56844486, 29419161, 5230297, 504852, 12423283, 96937942,
   82212127, 66086150, 22883077, 77789730, 71771360, 2780725, 6060667, 75391940, 88604632, 59627878, 42649752, 17749956,
   78053550, 33614625, 58318304, 90375817, 23379935, 55639822, 9737962, 6677872, 46862002, 70015005, 52013662, 40728051,
   30108067, 94571089, 42341239, 58994996, 25172131, 28830660, 54252794, 3368371, 42006973, 65639769, 90876019, 69325173,
   51502266, 29137365, 93422659, 65919045, 41841269, 99795845, 42062432, 45048022, 89693980, 36374864, 71950885, 65061590,
   39189309, 2225441, 8317988, 81648618, 86295623, 65485467, 56589652, 76842528, 20414795, 40186755, 88033093, 48655199,
   85870159, 2936563, 43702695, 87008230, 24625887, 55069321, 85812830, 98004327, 72820557, 49945074, 88923982, 12638260,
   87188150, 87302837, 89690612, 39613692, 67890712, 55840663, 82864800, 31182985, 21080857, 80757546, 45611036, 40705427,
   29907517, 25975138, 49301927, 32492643, 28327199, 60689040, 33638100, 53758411, 68071822, 97394402, 94616050, 70149406,
   17786617, 75497682, 78246897, 35333877, 4534714, 23215039, 23091770, 78066892, 5273004, 298729, 41102361, 68188793,
   39873573, 89350592, 61015985, 83036830, 10671501, 30495587, 95029993, 66635336, 39937529, 40193623, 91335952, 95049800,
   11276742, 50549821, 12097237, 89987423, 77572150, 79475073, 68329250, 76851175, 39442054, 23565788, 4180113, 82372043,
   53035665, 75279440, 92193577, 90608675, 16604595, 96374397, 15507776, 87435238, 82817038, 42842008, 57285438, 85653150,
   72568258, 35823164, 78745085, 41967239, 26740418, 25100916, 32335898, 5694197, 22152271, 49313032, 22632230, 59947933,
   59882261, 89629137, 2149228, 12413956, 32667078, 41231156, 59940418, 16760743, 22292699, 56851350, 36100812, 92758383,
   6198119, 62300845, 16349478, 96532458, 39636373, 37099812, 77566538, 18675708, 18872975, 15647749, 30927007, 22075068,
   43625268, 8222505, 21942646, 79505279, 80144315, 20176554, 43789979, 21203542, 67302185, 30843504, 69297188, 2980998,
   95580391, 55617930, 48618971, 54981427, 173390, 10525338, 15549579, 93614668, 37610789, 81009648, 51113223, 40432939,
   14235019, 44692574, 97237453, 52342551, 50637628, 80854238, 11777882, 86815361, 93129614, 66971522, 44279278, 21021793,
   98870099, 11135568, 41171085, 66274846, 81005191, 16535460, 32214143, 94371257, 8636330, 42963259, 65250732, 91802506,
   7544268, 59654883, 88281619, 36364361, 32141649, 60800560, 8101141, 23013048, 57274096, 71031596, 21974189, 71472438,
   1803540, 47678344, 84552217, 49679742, 61946245, 58541648, 82082295, 40185183, 33127010, 5418345, 5941800, 49888318,
   45566407, 27690439, 95419181, 19793972, 25490702, 31937698, 6544472, 70681381, 84720896, 90275130, 67552835, 50914599,
   94693552, 11912980, 77502326, 53478745, 71817802, 11585506, 97126608, 69199468, 61811808, 12941010, 41733362, 26492791,
   11096600, 77894502, 7554741, 63260335, 57492979, 51437281, 85221072, 10536786, 54055801, 34592950, 74337812, 94562297,
   51903333, 76353370, 34532961, 200958, 37472293, 78826418, 89748645, 57973133, 55874313, 1513265, 42717522, 39662352,
   91362699, 96351852, 57372094, 64956727, 63974633, 19181650, 30128666, 99205974, 15277153, 34968985, 47316297, 45163802,
   94039723, 26038959, 69613151, 55984225, 38761936, 31224549, 55585475, 87925350, 48767993, 33984812, 79096626, 84224023,
   42115776, 77850136, 71965763, 27474276, 83081252, 44228329, 29534841, 95468437, 27416342, 88779794, 47245561, 8051503,
   75059949, 20926194, 53332465, 25638854, 29881729, 5496086, 8781679, 94737465, 79787905, 56077, 50773393, 22370541,
   2635787, 42596698, 3181587, 38617498, 98155606, 18100022, 21264302, 14994457, 36874410, 99230457, 35085234, 95846468,
   33231063, 65236009, 81760710, 17979031, 90333808, 80574029, 33202698, 45721880, 57245482, 32211037, 16590498, 77497633,
   14160782, 48690401, 94719943, 20401503, 9332893, 50345616, 58292112, 50352916, 93355256, 88332314, 2345563, 2378745,
   15419000, 41831332, 48150457, 33701305, 80773039, 83569596, 40526910, 60516940, 65938101, 5357581, 61868794, 97466618,
   98771678, 92900354, 78044480, 8357559, 62608500, 45019916, 46233310, 31863826, 39078620, 65262235, 72679370, 14952150,
   81534893, 68791608, 79382835, 6900869, 49226236, 97392255, 54242834, 15715198, 71697164, 19240574, 14435290, 38172102,
   19407415, 15748162, 5024368, 12770349, 39516157, 38278253, 43416291, 38121959, 59811448, 11729809, 14806936, 5616969,
   85292371, 88076064, 80161621, 96055929, 18355475, 52414627, 82229456, 4910821, 72593913, 90152060, 95451544, 70475891,
   34254769, 78215989, 56046900, 6488369, 49188988, 81161985, 81274219, 78124876, 68660633, 49377904, 26177912, 26249945,
   64660139, 57202814, 20824628, 97113659, 79207407, 26304749, 33205966, 18407882, 80294319, 39840249, 24062124, 80022506,
   60409819, 28629723, 84146977, 83217895, 9864537, 15420318, 62192896, 59944630, 85290548, 55410659, 22940166, 44708183,
   23613106, 28848440, 41192226, 90938500, 75099254, 39815387, 50383732, 46425337, 15563724, 14571423, 17797989, 61533301,
   55473725, 62381647, 61005231, 7759455, 98534437, 72668262, 81157127, 61613073, 50423985, 96393572, 52980790, 76540819,
   59315390, 39482591, 95557348, 31563048, 15540904, 77612990, 51281733, 35886424, 2629279, 17897878, 33111545, 88420420,
   11849206, 52149584, 43223405, 46557368, 73685123, 28046974, 21842153, 21250117, 44698847, 79887107, 16582469, 86359552,
   61755654, 71019364, 18850053, 81152093, 71034962, 70778122, 85024330, 38159860, 48874100, 57971078, 65874178, 5100132,
   18499069, 88577247, 50915624, 70202430, 53685912, 661995, 88087801, 8688406, 33744769, 27557053, 46032497, 48927621,
   49579976, 84178567, 21804866, 63202562, 12510188, 65252314, 99852821, 4871960, 11487371, 20182491, 10301575, 15756881,
   44368770, 49083706, 29547560, 39509261, 43874814, 50923369, 87129212, 22795728, 88004697, 12052669, 75977801, 19489920,
   65928294, 64461920, 11512664, 76864416, 19363935, 16599574, 50439041, 72372756, 76401814, 46583004, 41072431, 8611820,
   21921956, 56656643, 64241996, 48074938, 23312167, 58504158, 29209533, 42636436, 7722189, 14752954, 69987505, 43880179,
   36147626, 30533867, 94879549, 84087477, 53937591, 16802629, 15333478, 18289060, 92211198, 62231151, 98420222, 12359923,
   82689206, 87531724, 32471808, 32670719, 9244217, 90354770, 96020355, 6177432, 66274638, 14177050, 51281871, 17465781,
   55952746, 86571953, 69828254, 12784089, 20579476, 95711748, 56268698, 32830274, 2932513, 51981352, 20247625, 49028631,
   47920656, 99503040, 89719003, 85677877, 16148117, 24638617, 29409177, 58903000, 19412990, 74267197, 29663095, 77938321,
   83780924, 38313140, 9743218, 5359424, 13060765, 11797503, 80491422, 51719152, 21988359, 35485493, 33166321, 49199996,
   80810945, 32507317, 52365241, 85875416, 38886654, 39400339, 58566032, 99092732, 46689184, 15844759, 79754765, 30520793,
   99843235, 84522402, 166239, 98255845, 44858696, 75199116, 95604698, 65670380, 26553516, 16946225, 72261236, 51902337,
   1900046, 69207182, 32862428, 88335175, 7970964, 57673158, 16633851, 38635978, 45006948, 80037881, 44488153, 28648413,
   3745769, 42674969, 27443586, 68543009, 21929018, 40773809, 70691614, 6380405, 57963161, 64225823, 17542478, 3184172,
   51369156, 60525094, 87797440, 60171746, 78664787, 52042567, 36529914, 30748125, 63463352, 61091380, 75446389, 59709580,
   96198589, 15835679, 30496599, 51896796, 77268287, 76450163, 21623671, 16030416, 92873503, 3882082, 12342551, 11327533,
   47296544, 42680951, 69177342, 18715706, 80999981, 36322888, 70074266, 40326527, 62075453, 325705, 90594089, 72823130,
   41990815, 49618541, 27455160, 38979505, 95863383, 10351596, 63233181, 2660876, 72129254, 98854721, 93589542, 38414960,
   38018016, 42474402, 97077125, 19608315, 61153725, 72997518, 83809162, 71449686, 5823382, 64382810, 65777498, 61363313,
   17191109, 42866006, 82698158, 53660845, 17808511, 84121190, 99037555, 6124108, 82692123, 91940056, 1630030, 71020073,
   34525482, 538147, 36571673, 93069319, 86840681, 30767562, 20879168, 73583596, 40988978, 8491152, 86798546, 82524679,
   49561073, 94843956, 60278440, 28836952, 70386260, 76596040, 30719817, 70808350, 9938610, 34150246, 18945406, 4218641,
   43056309, 67307168, 25972716, 87185856, 22993399, 12301284, 42959548, 47467377, 62511359, 80290620, 498231, 41278126,
   6280582, 65399437, 23318394, 50068961, 59304636, 68831936, 29274820, 48682392, 47716652, 65079672, 93630274, 40072221,
   77814325, 80559670, 68837961, 78878103, 77087228, 64129471, 33002703, 73291998, 73975393, 40772732, 78688456, 26235459,
   16181336, 16852333, 54112619, 93600144, 78672216, 73797648, 60322649, 92669200, 59725407, 90559444, 1673132, 60093785,
   97373999, 52023563, 4199872, 63331713, 28476569, 52077839, 20176340, 56259909, 88691451, 3191429, 14729448, 19613280,
   22142747, 37481514, 68336274, 5110078, 62061225, 21371889, 90495527, 35065217, 35751333, 96787846, 84596673, 95787442,
   7810897, 63554384, 51292825, 48294853, 23877987, 70311025, 87651941, 39388473, 80386875, 43616099, 18821957, 42289460,
   27525336, 7878418, 80048741, 94020372, 62111823, 88751642, 9664496, 42829834, 79051343, 76956161, 92287358, 61787672,
   29387659, 20849948, 87041034, 76884078, 96259549, 52954061, 1979264, 90322757, 16094085, 62768413, 35975521, 93967904,
   18388474, 59870324, 76024357, 32327339, 62388490, 27049837, 17852861, 30417276, 90060235, 54086440, 27843004, 45272354,
   53875822, 4728264, 55545770, 12854471, 34715637, 81761538, 80014247, 51615182, 38870552, 82605403, 37628452, 18299979,
   1546895, 7324819, 47719284, 87545876, 18548046, 81481713, 50629242, 95358679, 78594445, 48509395, 46574108, 82335559,
   61010215, 70109139, 12931561, 36885249, 85942513, 10337963, 50284886, 69161187, 56856409, 70064590, 98701182, 86700997,
   60443880, 19440405, 17859865, 87896230, 80123917, 83362355, 49780559, 2677508, 18394075, 64383539, 49944894, 91235708,
   51729610, 57036754, 92951022, 55545072, 94152051, 43959345, 93244135, 76500146, 29726411, 91149559, 12629068, 45904285,
   66838675, 60960739, 23237511, 16243773, 88491462, 96250736, 44447682, 52712840, 15765665, 10026011, 74596495, 33118710,
   76385431, 46611971, 30282215, 84818894, 16939196, 40481687, 6654059, 53606131, 33616026, 22536253, 33411370, 72374280,
   33692743, 99351425, 5190072, 59665163, 71659071, 68719222, 37632503, 19195573, 4848608, 96055687, 12971613, 87265128,
   73891445, 37705809, 7768201, 80573852, 98694409, 84511906, 205516, 69093084, 75365115, 11733091, 54715108, 76301245,
   70514077, 24572786, 26541230, 69034213, 94134704, 28004215, 13122197, 51979391, 32051112, 38799236, 95904916, 95276680,
   37414785, 58689591, 47670937, 89054181, 86582739, 85380805, 12826116, 87021456, 5873521, 50371833, 83117123, 56079739,
   67681297, 36254871, 84610431, 41475931, 68358604, 26289772, 95475809, 79169179, 57693867, 9412179, 42775376, 43431190,
   60826863, 31099490, 5281707, 7841245, 96051787, 31119104, 90241955, 27032393, 35134907, 93291008, 38958537, 13243720,
   30502194, 79256149, 53786579, 65570321, 97516049, 54905834, 68003711, 55059857, 56352757, 11301155, 69216020, 49661872,
   24999647, 57468834, 3932753, 34026846, 51203140, 85106840, 73571721, 32442744, 60238471, 84581430, 56109815, 2914446,
   17419783, 76059331, 95906491, 62848741, 24254371, 4464715, 60554752, 78935314, 68815271, 73987833, 21713749, 12434129,
   81320714, 17420438, 75560793, 19565374, 91860534, 61550101, 28044594, 68216810, 60018278, 18889769, 20989409, 45150047,
   17322324, 63745138, 68336105, 18866311, 11102397, 83978302, 18446232, 92664809, 55498424, 88730951, 54054858, 14597913,
   23662812, 52620872, 67531434, 29940072, 2858692, 30355714, 16601987, 48461860, 28074333, 74524696, 69732265, 69083109,
   51364602, 68085673, 24121598, 1898100, 75650148, 55626851, 42382705, 32729063, 84106431, 69920605, 56962848, 4639189,
   49228529, 87836803, 40402408, 17765708, 18587362, 1891321, 38244669, 61141641, 35994994, 34947594, 19559563, 41549358,
   38280984, 61436518, 42227777, 75930880, 85684712, 29517960, 9996099, 28960114, 76692499, 2375479, 56944222, 90409100,
   48803664, 89295189, 29809611, 23199249, 77253947, 51677074, 72430072, 27829715, 15919758, 45350464, 97228952, 28075501,
   34604409, 17827550, 59196824, 18171058, 57870732, 88885196, 81273324, 32587777, 14804777, 29992902, 22909738, 46644488,
   42856870, 83108103, 28173182, 83141970, 98059467, 38970237, 45224412, 78100553, 73762321, 27449643, 87152789, 57973459,
   24135737, 30585078, 18025571, 76356828, 63205500, 84245174, 34730951, 56325571, 51052002, 76173050, 58718051, 72355235,
   42787057, 38329145, 59467804, 68214742, 93925833, 81204871, 44378981, 74162613, 99216685, 1748926, 63094077, 17808647,
   56617258, 75561799, 95836731, 53324246, 95181101, 45228448, 22735741, 40553846, 70205752, 17231285, 12495525, 79931221,
   48058892, 47105951, 69766460, 83632461, 52665491, 64854957, 99556072, 97964408, 80397622, 43076027, 23863294, 55049598,
   35603208, 48533142, 94787621, 70790289, 62282636, 4813586, 65586969, 41323145, 3405777, 66105405, 86286924, 18523992,
   60507131, 20482303, 30834106, 57788439, 23274536, 47885063, 44044996, 80309857, 34905911, 32179608, 48502042, 16325225,
   95973201, 90135163, 87357531, 86145590, 38732774, 58778763, 12025225, 19482689, 30571540, 31492464, 18499337, 13361379,
   9343848, 55558554, 25531911, 55746870, 64982395, 18507010, 72665885, 62318671, 45790029, 45986813, 31987273, 77515608,
   34858295, 88087849, 11962156, 75678127, 38752573, 67432262, 8285090, 6194023, 89914068, 7921081, 22627886, 97510365,
   60797603, 96052444, 91055817, 53978293, 47867090, 61948720, 87607706, 70615365, 21818894, 20700041, 64576637, 71026815,
   87244578, 62078078, 46662228, 68972808, 90228166, 65121079, 17606567, 22590040, 77374257, 80541019, 10950975, 91847853,
   89364692, 8750563, 9012412, 94463853, 45188450, 27813298, 42181598, 20811736, 20809104, 37909625, 58687578, 21194209,
   29386642, 75527864, 80798794, 57803553, 55531237, 88181754, 86575665, 12808349, 66020673, 85377474, 92171927, 86769340,
   51215758, 69059134, 61966491, 64751970, 76376658, 92319145, 2535359, 83763789, 55243522, 81249390, 35386674, 94791445,
   71729365, 21845141, 94133357, 66690273, 89546567, 19863382, 1477272, 67490605, 65978167, 66019303, 76890413, 46805670,
   84754268, 45694680, 22202235, 45572845, 71816272, 65231695, 65917650, 23861286, 56789999, 24391700, 59086021, 99065128,
   29885748, 5864446, 90284969, 24078810, 93376683, 54284218, 34481609, 26306472, 1265316, 58679438, 20850195, 46809787,
   62324485, 59811583, 49733023, 13885539, 82915295, 70188515, 96252939, 62552425, 19862903, 76388228, 75978123, 1085661,
   77853339, 52673369, 42585179, 44606759, 8211589, 42849563, 19682124, 13686827, 14991953, 51803154, 69861767, 97263005,
   39195902, 80042405, 93129723, 29902050, 3373288, 48793936, 98308930, 54817066, 84655843, 5526217, 2165658, 52628241,
   97479667, 40482360, 4120089, 19897666, 54941296, 36955185, 13974200, 64365930, 81359047, 77433668, 55042121, 51887130,
   11116330, 82550039, 46383983, 37104312, 79521016, 4352071, 91883749, 81234162, 73479815, 57211941, 79576532, 85848269,
   30404652, 92084926, 80150871, 88473993, 85970165, 98816017, 83954404, 21901939, 73882907, 91362536, 99136783, 85788843,
   52481288, 84264523, 53516570, 49015673, 90679766, 31698432, 91439829, 20666527, 33107636, 80955384, 86273878, 14551916,
   69794858, 11006969, 91481894, 64484982, 34195159, 98893251, 67724327, 89232642, 81361000, 71730500, 1965982, 82541422,
   95717681, 82224205, 71428577, 62610737, 6794150, 10820103, 57597767, 54599111, 47843477, 66859671, 427680, 63559867,
   47337398, 39930498, 64256361, 66050593, 26415045, 7242475, 42100354, 38260427, 88398137, 67082063, 79627630, 4727733,
   17964905, 28904152, 28151456, 51299991, 55185413, 11948985, 65185420, 56995835, 4016096, 88928198, 3928955, 93704237,
   20565556, 77364232, 37446406, 18357849, 35808601, 90851658, 78243254, 62215080, 13605849, 87385333, 45017141, 689960,
   7337893, 89946016, 21657104, 14986756, 76755822, 20582116, 21998066, 30365571, 48337762, 28878427, 11525930, 76796554,
   46917088, 34759694, 79543617, 34338684, 96352252, 34262438, 31413224, 44123283, 35697188, 41675513, 83175781, 68524148,
   18767419, 68959711, 24158025, 93690358, 16447135, 79782550, 2267510, 98019118, 39220980, 65501231, 14295981, 32672588,
   17250148, 92743845, 89513485, 38745097, 78494633, 98116416, 43870634, 50928637, 3816730, 70152371, 16641791, 31893420,
   34306000, 6917882, 85689035, 79343336, 37826884, 19940728, 27503241, 1739286, 85085106, 80016535, 68364716, 21345209,
   62520966, 23547211, 63479726, 88468663, 12250744, 14571112, 28228440, 97216186, 79020424, 86723838, 45561105, 70847513,
   66595035, 93601137, 37830168, 22868766, 87930565, 15454426, 48797177, 26562821, 69094963, 29929409, 49123247, 74031492,
   35866445, 93605480, 17128, 68748425, 24091486, 26124047, 87335366, 70967057, 38589495, 79773076, 31656291, 99979492,
   64287943, 67961757, 14909716, 88975218, 90170901, 48138289, 64850267, 46917824, 74034849, 73391797, 30251666, 58119851,
   15197810, 92193382, 35874328, 63127173, 91206255, 99206483, 10835696, 34447280, 14644476, 41379363, 62313930, 13121797,
   63482546, 78884549, 91926129, 95392399, 35357067, 54606255, 69463814, 29266428, 31394084, 53954136, 46281536, 9518462,
   95169396, 31676048, 78434967, 98632137, 8627295, 93277399, 99371649, 80797765, 75847808, 28363443, 77447218, 87082669,
   10966566, 43271599, 24689056, 59026987, 18981752, 22953415, 85954662, 72516085, 11318897, 19205950, 79536195, 92873983,
   10664479, 39590964, 500275, 30254519, 21470239, 35073473, 27763989, 13062241, 61685253, 6978037, 95126338, 35504513,
   60641393, 18631488, 61967281, 64946375, 10957757, 60183819, 16275323, 28538019, 43195643, 59761707, 34568657, 82100157,
   64359929, 1767178, 27610667, 9362872, 20293298, 57159263, 19796889, 45106625, 95789195, 68583155, 2985929, 5992094,
   86410532, 12078812, 84598439, 50173772, 66613196, 40350979, 33502977, 13930957, 92795059, 40268397, 94156869, 3835971,
   48649466, 87596811, 86557424, 66375665, 77368437, 50462323, 10323896, 44222839, 90129802, 73505159, 37102978, 40884488,
   20662044, 94241732, 44385975, 81019169, 93445159, 82481162, 312784, 89379926, 26641221, 59768345, 54440495, 72284422,
   45087543, 10968029, 47617684, 12543371, 92465748, 26258704, 54275855, 36497679, 66334488, 81291780, 79959891, 8680684,
   46309238, 466487, 72937852, 54621293, 93040996, 32827545, 70497440, 577307, 58473699, 12815772, 91386781, 16135485,
   4384881, 59621283, 89942544, 19852379, 69566929, 70354131, 4374195, 16223203, 6852784, 39006507, 65766222, 22069483,
   70314711, 71090098, 20209345, 89287582, 17231751, 21979343, 17207942, 55221104, 97386449, 47027475, 67544599, 39324976,
   48318052, 17502364, 32538181, 99609491, 49734490, 71780454, 25566240, 64690446, 14875786, 44503632, 73886021, 44108168,
   66870953, 48044922, 7310569, 65700252, 13960701, 25545453, 95243561, 4789463, 35612332, 84310815, 86918589, 61679990,
   45245843, 59916049, 72315197, 49447041, 16133893, 78293568, 16323023, 6674761, 97315249, 96008759, 38783365, 51456371,
   58792035, 43253988, 52527776, 42885192, 24055259, 23207666, 87186588, 75803647, 10147983, 42536247, 91211048, 44790462,
   28561805, 25384407, 74678253, 33917315, 36032975, 17543963, 13282223, 12385603, 69761868, 15875146, 81488416, 44279749,
   78866042, 41545016, 51401616, 74146408, 62955729, 73974551, 54715645, 69974607, 63993542, 92523447, 48488554, 98395616,
   95384093, 96860203, 32706309, 89681800, 97064543, 26831212, 560285, 46346158, 74875431, 78584277, 96271249, 19047326,
   71685201, 98024197, 15124181, 72735951, 24222787, 600390, 83205989, 21916538, 95740618, 84581534, 80273554, 31131263,
   72763675, 64816633, 68957952, 90269058, 57181574, 65441551, 69033956, 81261168, 17694460, 77512744, 13400450, 65363071,
   77349743, 77659702, 47339224, 45987164, 73156277, 18087973, 39482770, 20276848, 91773564, 80410342, 52297503, 25781209,
   91280094, 32334882, 50083345, 45252690, 89920748, 83083155, 83554853, 66541605, 86610231, 30651192, 60906797, 81266906,
   36260592, 89952990, 60922677, 81292390, 45170253, 92474745, 95030022, 70153339, 87325100, 31715560, 19648413, 9385780,
   84571415, 25027063, 45068505, 21477565, 95710983, 51080813, 35028446, 18931250, 68761618, 44033027, 19351146, 91950193,
   20584716, 86084743, 50910217, 71680377, 52780495, 15599038, 13197804, 69490264, 772325, 80490331, 31930962, 20316587,
   29244595, 11967247, 48729318, 67270962, 14923846, 80934104, 35049747, 52913957, 91416072, 7870956, 76263852, 73666987,
   71727080, 92778453, 71309282, 63851343, 41260627, 63816542, 44999185, 2164887, 7328870, 22065334, 83839517, 9666966,
   78951815, 80809762, 70306002, 74665100, 26194311, 21396917, 25883777, 11077133, 54618947, 45536841, 87405378, 8591161,
   26207547, 90036646, 54216241, 75135829, 45438064, 38471298, 90734102, 44532074, 19033441, 20539547, 25368845, 2212840,
   2495979, 9402292, 49030940, 39550825, 34266302, 50650756, 80650386, 50249033, 71266126, 29804877, 61140299, 24135793,
   95411855, 6894309, 25572594, 1827209, 80790191, 83132144, 58728649, 90489685, 34234981, 86182678, 73468611, 71688655,
   37689943, 57705598, 22654095, 7561318, 24073330, 44999956, 52623395, 86403275, 60198210, 92292709, 14857521, 96837327,
   44254305, 72664988, 71193628, 91755445, 86335414, 64172093, 46260586, 51425148, 94989966, 77281393, 15287288, 93391257,
   8796784, 13609581, 25036512, 62722253, 40622371, 48450155, 16203065, 61956192, 9930871, 6939524, 42853811, 42374875,
   60213066, 33937076, 42260107, 8545671, 29170720, 87599092, 98949857, 48423567, 90333544, 581443, 65977563, 86574664,
   78221198, 32547163, 49238920, 59933885, 3253054, 11899536, 35309640, 88489784, 15272263, 48682602, 18097630, 36713255,
   59051822, 98288611, 43394367, 94052513, 37879566, 46505476, 47210809, 66972660, 58387668, 91086813, 59925190, 63260538,
   77611737, 94180275, 87812414, 87297595, 44292743, 10175699, 79256650, 58580659, 759301, 99315459, 6109256, 8391865,
   32171645, 6368584, 1364359, 42577066, 70257101, 97331382, 12781819, 54266050, 66779417, 55753858, 78945280, 83437412,
   4245868, 39355487, 56431294, 3746934, 75611716, 31370116, 76338730, 55010241, 65928409, 78347149, 47952667, 8332817,
   76466057, 79728966, 59144424, 13139638, 25800150, 76445797, 35383623, 4542929, 81031779, 13016825, 26901930, 9177484,
   57308213, 63076055, 18129082, 85977080, 57477529, 3220579, 21111495, 34559576, 12462633, 64704105, 35490659, 91130144,
   62643904, 94963418, 20620179, 17759388, 39892806, 61682852, 42453946, 10619865, 12439679, 66127950, 19739072, 96004408,
   41455640, 84819298, 90931350, 23136966, 36546347, 59822695, 90300841, 71604017, 55895375, 40338352, 66377472, 85027428,
   53163080, 62075920, 1058900, 39768454, 50662058, 51522572, 84007995, 35642936, 7136613, 12380292, 43758451, 60845271,
   85285965, 68716181, 57271398, 31571866, 40090474, 85715018, 56254048, 30325964, 51733187, 40203234, 47684934, 85151391,
   48118421, 96869618, 39494309, 94653349, 77502658, 84656009, 67394446, 18383002, 28045139, 72378960, 7028945, 18477186,
   1312967, 98189792, 99977606, 60311241, 21175300, 92463658, 85140908, 36045254, 81959751, 39395001, 6193781, 22670784,
   87264209, 56786869, 9253945, 73768108, 51298970, 5111281, 41376400, 20203604, 38955191, 17969235, 83772113, 43960931,
   85933256, 93399854, 18709363, 95658502, 20825074, 79510886, 52820451, 65509039, 42409712, 7307710, 68813767, 88190742,
   49523889, 88352823, 42190559, 23712027, 49674667, 56666444, 69941186, 19314942, 91452228, 48905157, 5685786, 50014179,
   17192695, 989688, 32602225, 19859585, 53014906, 98851974, 99642598, 7532742, 92581705, 76410900, 52334366, 29652013,
   46691323, 88591668, 97163498, 1796094, 73090992, 72242991, 68985020, 16285488, 21709494, 12638790, 78023724, 21861428,
   52285803, 59097584, 95536077, 68866735, 74100555, 38434349, 28178113, 43380529, 79029011, 71607682, 87538814, 64512753,
   19687549, 99579336, 25151106, 4841358, 38994931, 67390296, 35283315, 15394735, 88730776, 31567023, 26860070, 90377318,
   6481941, 29929886, 29887288, 49200624, 69339309, 58492759, 62499517, 8416616, 49598228, 10460380, 98253572, 44080567,
   42117247, 51890316, 80479643, 93148150, 19986988, 69185857, 89459253, 42897214, 27553258, 24942546, 36018822, 6223158,
   94889165, 35116184, 14372241, 11881801, 16995722, 29787770, 47455271, 92981953, 50471799, 62307410, 18332181, 55161169,
   76768686, 9014139, 15774506, 30264963, 80486416, 50622794, 86938573, 1728886, 81830320, 21149191, 45053535, 3098351,
   21242221, 51612382, 88539901, 14205223, 15706461, 18689035, 32737737, 86216609, 258871, 76347317, 85033813, 19212780,
   54191426, 89660863, 8355751, 91946496, 27142787, 22809931, 35145838, 89537821, 56821894, 41635231, 23201148, 44879406,
   14869143, 59239616, 66546849, 60975543, 53456238, 5344787, 95365354, 51298952, 38387619, 29075691, 73301590, 67575277,
   37087473, 25371199, 32781384, 8251293, 17833209, 60071347, 92927029, 25241439, 52974915, 4816317, 78770970, 50181185,
   118900, 61598246, 89668130, 68053297, 1524821, 64127247, 48644080, 39221839, 98614707, 1541054, 90113360, 1397676,
   30653304, 98265830, 54496678, 31727321, 12276922, 1674996, 49491254, 93099240, 24577034, 57290235, 89997352, 19992331,
   39106914, 88502317, 2355998, 75205073, 58241841, 82786696, 33136524, 99422923, 3110148, 23823777, 85245424, 64471084,
   52555325, 33302716, 20969824, 72250783, 70199675, 67602359, 81017986, 18526906, 57368600, 87873817, 59061341, 30116706,
   99691173, 32814705, 36536368, 98013702, 28422998, 33152505, 90175195, 2836768, 16773685, 96695331, 56365339, 46661289,
   13947841, 58306786, 87092017, 6823695, 98544858, 22247973, 63553305, 21157881, 16923819, 70920173, 85650803, 9761345,
   71486669, 25254341, 19673069, 97060726, 23096351, 14799433, 66094352, 25087262, 23341004, 26498757, 76336808, 1366250,
   79554816, 89904035, 42601033, 20443162, 41433039, 46582825, 31901538, 13597212, 48284268, 99060126, 13176872, 40539941,
   19664521, 13661239, 64009977, 27037502, 63289446, 63319627, 3772077, 49158049, 14827143, 53976209, 28877868, 35907239,
   89710691, 53403031, 33509621, 15208486, 95437915, 11080658, 91854591, 38786392, 14031611, 11463982, 56419148, 30906101,
   41571078, 67934211, 97991737, 44954142, 66802502, 24368528, 5892263, 70460080, 88652605, 22074957, 10320189, 56148719,
   5748541, 87189579, 143298, 60336583, 563936, 78574561, 42283195, 11882579, 49277051, 73064088, 67094644, 3951681,
   47089704, 43213191, 60474994, 54979967, 68189612, 30489876, 66750438, 29792125, 51539969, 51027689, 46695091, 52475273,
   82208458, 66821212, 67847049, 47040717, 22529109, 96261912, 65989476, 70550317, 3059802, 53690810, 4493963, 79064163,
   18808518, 10679471, 56226513, 38050088, 6076878, 14873040, 30440857, 24880269, 3224869, 59571459, 56714124, 12814866,
   9506810, 86124756, 86835719, 57271300, 95095154, 42179295, 54896968, 62699792, 44174421, 81320983, 90981398, 80828516,
   27575629, 29002295, 91641098, 37524243, 38040074, 16376224, 50457709, 82868429, 83820630, 95347627, 60799378, 20231482,
   34363058, 34338180, 70098474, 84768033, 52105853, 43367837, 10042843, 82530654, 14472955, 68262505, 73672665, 63312665,
   41380346, 19444599, 48679267, 24892669, 86259980, 14034623, 95516664, 14137076, 27789719, 35528521, 9089203, 22100613,
   35857121, 52636854, 82858173, 31561885, 29661923, 22475703, 60558925, 44339044, 46774394, 90002979, 93513801, 7769082,
   3774745, 51684512, 92649837, 55861558, 5883478, 53247459, 18190844, 45016987, 87637086, 80209442, 89553468, 41527082,
   33287798, 9108805, 39957962, 10570560, 88143917, 79017403, 4323427, 6095569, 5081606, 87308319, 10188153, 53459484,
   6754945, 1329581, 11430619, 8019686, 7773185, 39650403, 70584617, 51946964, 51211642, 36868597, 6375556, 37968702,
   77796701, 11415085, 35246425, 64075241, 79807070, 53303752, 61368227, 88827822, 3878314, 60169329, 21613202, 20476179,
   53028151, 96503632, 87825241, 9010846, 21162615, 88201884, 44248162, 7998507, 91236810, 23910860, 20428737, 18487141,
   73392942, 23918462, 94048000, 26930511, 8661839, 70339108, 59542596, 6873847, 16129024, 72666627, 314350, 38776927,
   1485009, 10397655, 32161188, 92585792, 21724177, 28098032, 80785135, 8493091, 61957477, 92799208, 81864601, 59523326,
   80909850, 58026277, 83243231, 28653531, 94069776, 46027344, 86163753, 25266361, 28906452, 80508231, 17847249, 785875,
   74446698, 12434195, 53156408, 50566852, 70654021, 61633247, 78506218, 61652642, 3004484, 83020472, 88509043, 87045521,
   64561217, 20751842, 40726063, 80449617, 65334884, 79731130, 59006176, 51306902, 60603969, 58716498, 53968679, 90008520,
   28883049, 60329932, 61344300, 68841669, 54665554, 11227844, 68026410, 51085939, 4516964, 42589794, 46220590, 74867477,
   30666653, 14433805, 35576361, 18303510, 36189693, 60076483, 56758679, 9877668, 87679637, 6800606, 34326257, 34840692,
   16327848, 97005498, 42094601, 95490934, 8965638, 35464963, 33179702, 48377098, 86175001, 91085002, 97116615, 68522846,
   4873976, 74698677, 85325363, 91077515, 36443626, 94588700, 95479871, 90439486, 55105246, 68339676, 3214499, 43846773,
   27593419, 11257819, 62147213, 60075750, 5243620, 44699080, 36429053, 74775546, 70598694, 71540912, 19569376, 47161303,
   76567859, 89460916, 53434620, 26787882, 1722391, 24954001, 4874307, 25663418, 73151299, 5635354, 39942493, 75460152,
   22456114, 59486738, 73360695, 73582144, 87849347, 34184209, 71473321, 64453559, 84812046, 10250054, 78072808, 4112222,
   79936240, 27028440, 15503267, 40352787, 83741927, 87662352, 61443952, 57458675, 51573626, 37420382, 33454670, 8708775,
   37868887, 1332632, 39048686, 75384752, 71421367, 24475896, 88289047, 58900778, 50749077, 22365696, 57139453, 42987206,
   58093766, 20289105, 80980334, 87124246, 86139239, 64016406, 1633894, 57035312, 73838469, 32420700, 54197458, 26049659,
   84876805, 3185664, 5922853, 60627833, 54794778, 39586085, 37031417, 36975608, 41616813, 64079488, 72196002, 86489061,
   99083645, 54581623, 90950399, 32738076, 96607935, 34238598, 51998387, 20097415, 57318529, 48731082, 38315518, 23419843,
   91329160, 81338779, 92293808, 55589, 58459392, 11961134, 17542754, 50918042, 98957408, 45925747, 77882226, 82569479,
   445624, 49535468, 57578932, 95690928, 92648589, 30708953, 20697331, 69912219, 93491532, 51499494, 41946283, 48460179,
   64063583, 16442287, 62966171, 36758794, 71607247, 12812682, 23076954, 75872171, 86365267, 6118352, 46503890, 91848880,
   31876715, 46244724, 88659299, 18243218, 18647791, 22385836, 17526481, 65340000, 89168687, 51199841, 82538429, 16617419,
   98442858, 10898365, 84735067, 43996866, 67108591, 54692218, 9871206, 74613987, 61380690, 40479654, 39004332, 46883622,
   7586436, 29908181, 17746794, 70057215, 30864199, 32793015, 20366090, 18396238, 61471497, 95103377, 57623883, 51064681,
   19600640, 79323712, 25040054, 55825813, 31770601, 80019005, 82709621, 56051248, 25748596, 17997597, 15158797, 28029351,
   77024149, 57027954, 59044643, 47355615, 24451578, 44096771, 10358057, 54021569, 68461927, 71324184, 9243545, 16616298,
   5960798, 99108712, 90287351, 25152926, 14428089, 16043192, 77943625, 66034755, 46507050, 4697312, 90128741, 92137859,
   15096615, 973915, 81333361, 59915773, 95499217, 30417595, 23732659, 27993031, 34845714, 68731212, 34367800, 73990019,
   22436727, 14743818, 53990821, 45694937, 45790391, 94100008, 4067590, 75212807, 87710018, 86617265, 44304738, 15445144,
   57367173, 71031531, 27452119, 57132723, 65298154, 44896039, 42047453, 64146854, 59532125, 31370867, 31515416, 95373680,
   5261972, 56333938, 7227117, 8513046, 36411824, 28885454, 82539777, 2583942, 65216051, 10173359, 64315211, 61535966,
   14271241, 77810854, 65001035, 16125394, 66131379, 85175152, 6744955, 78337567, 46458028, 49454748, 14571699, 80212919,
   58777251, 19216060, 28814301, 86416327, 6045433, 44331725, 53818980, 15372042, 48794995, 43966897, 85868125, 70230880,
   84753201, 82797189, 34593528, 82938399, 72431479, 3333412, 44980949, 45768021, 79764021, 42379612, 60471596, 29617232,
   3440039, 75420099, 39607559, 68612360, 1169280, 14729024, 8082413, 10815016, 65572128, 93300706, 86116819, 64509882,
   61771441, 31815545, 97272433, 17190287, 92889919, 24003197, 18460447, 78115295, 30703082, 38088510, 63693792, 89120065,
   87430713, 62557018, 67183173, 92701756, 60317011, 75822719, 37985357, 36997485, 21650156, 35751995, 38811201, 70321292,
   89844606, 66493910, 41146713, 36144494, 84040400, 56133743, 72069795, 84558732, 72860674, 16395603, 5908138, 58237385,
   43816322, 69168074, 50697250, 94356036, 96862860, 33510133, 92745620, 22645800, 69589470, 10831453, 60481374, 39235254,
   51752279, 78917524, 19432319, 56983493, 26791204, 95556090, 83875222, 11652969, 87309090, 72876410, 63083106, 92818785,
   54229672, 80471868, 36498453, 501736, 69835157, 54041364, 7127655, 24607220, 57519922, 71976626, 29509406, 25641010,
   64438649, 80481324, 77179620, 28444346, 69064486, 23061930, 25983339, 40280688, 14923910, 28190068, 29501586, 97811259,
   55297306, 55681132, 91529074, 40468131, 36903803, 23420306, 50347386, 93540870, 14032578, 55390347, 71012776, 33464756,
   11505242, 36570786, 65409830, 83183908, 61149341, 6060848, 19301230, 60943795, 93555725, 72735888, 34400894, 3187089,
   22179315, 87518332, 92482736, 45089728, 21754183, 70516502, 18596683, 72737653, 67564500, 99244180, 11713127, 16258985,
   15556367, 65833665, 44358130, 84381115, 37158668, 46649821, 81105163, 5886525, 87738787, 17688120, 90082763, 68331892,
   10512721, 69797529, 20304977, 29572826, 71688701, 95265628, 26460714, 23266927, 48560271, 6215095, 85238433, 33712529,
   64428404, 92059320, 12723621, 42150788, 42055806, 68380355, 84968399, 86857955, 70580952, 85623777, 48343703, 32044442,
   29377973, 12443257, 15964488, 35269689, 40298604, 97186029, 12325271, 2848442, 34947980, 14299282, 5558015, 61004192,
   34080008, 79540214, 41374129, 2346079, 40776721, 78051132, 96993826, 56996348, 36679782, 49196467, 23262139, 97209934,
   17651470, 41025567, 38751772, 41153529, 934180, 49719234, 21198662, 94059855, 52613988, 59989466, 19347226, 81384312,
   64239793, 84109930, 41742223, 92666600, 5968141, 97402267, 28719807, 86728982, 27741030, 47665618, 28194683, 70440783,
   29813181, 60017265, 16402417, 42902200, 48950668, 37230674, 54126413, 41451391, 30132746, 81974957, 45419798, 70017658,
   60743371, 95948824, 21818269, 57609109, 61119321, 59868634, 11615115, 46759840, 45826855, 35777284, 60561731, 939133,
   30879278, 12478301, 52031899, 95858627, 81147198, 38128457, 14287383, 23476715, 25377931, 37563132, 58512385, 61100250,
   18301544, 71518022, 88176705, 11382565, 64697407, 25655675, 60892985, 34836409, 83588577, 74399435, 62050623, 90936299,
   78368656, 2592942, 34642044, 97869116, 50639440, 9171319, 27587646, 90797874, 93730652, 31231263, 75077972, 21690099,
   28982129, 99084256, 37263307, 28974592, 51097889, 23239310, 44250005, 15485032, 99934124, 40069393, 57389944, 71543391,
   5425153, 53904131, 71785618, 13165436, 91511713, 47306802, 89300808, 31968400, 96577565, 56271008, 81850700, 9225307,
   88590472, 95433380, 18687211, 84437453, 49429718, 27949412, 88083702, 1276246, 43092525, 77554435, 91736288, 3257437,
   21792459, 16432825, 21446550, 45657884, 85607034, 44432510, 68257390, 1115414, 84841297, 63133128, 51624361, 95066078,
   29326268, 47727889, 41843235, 96695211, 68935577, 78268654, 17841390, 54340335, 80783631, 33886396, 65217720, 95110320,
   29464523, 32830293, 88344390, 44390342, 28831791, 99613135, 65462798, 84457213, 48237763, 5551186, 5225827, 74634014,
   75482472, 9243286, 34011054, 28039995, 62092984, 28497035, 70110544, 31478547, 70645770, 59131923, 59778264, 14649355,
   82034502, 96782986, 13799952, 48101059, 72678250, 47325775, 5649381, 96721310, 77353650, 54143089, 5018984, 55512615,
   98031072, 73068273, 14877714, 78256872, 62479725, 3778907, 67102086, 13910964, 6852036, 14539354, 10078007, 36782901,
   2142747, 49164572, 95332586, 42256859, 92915688, 4078830, 23176805, 60239377, 10249897, 7819937, 40025287, 25120982,
   53414924, 21026694, 14553557, 57264956, 25106462, 92692632, 74567152, 76910718, 28485585, 50221626, 25104167, 15186588,
   35868968, 45994924, 49838309, 86117569, 93002644, 87954728, 85089541, 1915720, 46691106, 70693408, 30919075, 78070988,
   5674527, 88411011, 49108328, 14124075, 92092360, 13749741, 9117452, 46848402, 2635944, 52230157, 28391919, 88779771,
   72344081, 38588266, 74226786, 95504178, 2608376, 14184313, 46989621, 46171242, 34171757, 19984215, 69958720, 56227408,
   13926001, 72573173, 96990156, 10673701, 70260444, 67407802, 16519421, 55218642, 17170386, 52497279, 34255431, 15937390,
   75077490, 95188132, 32985840, 44915405, 73721943, 17619037, 49319823, 89320340, 65415841, 11729962, 82066156, 40280848,
   54415939, 52680537, 40242323, 11562849, 15488225, 55815914, 22198419, 31156495, 36670620, 56138763, 59080552, 34130741,
   1823646, 19810412, 96425083, 44584591, 20540064, 89456265, 81341343, 4862527, 66691218, 54248592, 57407035, 93270154,
   52504015, 11733030, 3341478, 21334381, 58707000, 59215603, 8545030, 39383390, 23364439, 22409702, 99241501, 92552130,
   37278521, 60586734, 54373719, 48291120, 96620934, 96793418, 35974515, 36904347, 63875195, 54447183, 58378855, 67164340,
   24932411, 6645660, 34948774, 77490364, 36455116, 3262152, 77460804, 29287584, 57566690, 17143947, 30497491, 73479894,
   27754515, 92786635, 93855886, 80560177, 13815037, 93193368, 85350843, 1139150, 20223196, 47332436, 1807694, 66944837,
   1957663, 57561104, 21947165, 10192934, 38631814, 16712329, 33976995, 51893417, 94877567, 46621355, 31318853, 92006683,
   54059324, 65762219, 80010992, 48526891, 91353908, 43054242, 18582705, 49141713, 14262246, 51177698, 25491840, 36854954,
   22653665, 25948246, 28108252, 33624100, 19929512, 99604717, 92004246, 85684421, 70103101, 92587725, 52813144, 61610553,
   86526947, 44864036, 9518679, 9834374, 18304087, 39096002, 29091920, 45718174, 87742588, 37976127, 23313579, 82652633,
   22629775, 25700631, 86883933, 29031631, 3410907, 23047644, 66342274, 58215944, 92335616, 39893436, 82541473, 19707437,
   8576348, 43387871, 76021701, 92223417, 65837627, 35621603, 53341534, 19291248, 46602677, 69630429, 8782008, 99285389,
   39440778, 61588668, 24360916, 33717288, 60922653, 50752261, 3697391, 27210983, 16863211, 64681804, 57762692, 94031778,
   91529257, 52679564, 3299128, 11562869, 56210553, 89937153, 61123727, 11612670, 78089766, 97476035, 7209496, 29082076,
   19158980, 37506740, 46584314, 85381553, 65872390, 39533713, 11130053, 95048956, 88116132, 81208023, 85958551, 30366638,
   61090134, 5955070, 78689525, 35804482, 60002794, 79171414, 16260284, 77927261, 67081319, 98469649, 71587629, 69773000,
   12594666, 28465236, 92183455, 57472443, 37656830, 8015185, 57081353, 27537520, 84595048, 54515579, 43459730, 18610818,
   46826323, 1958089, 83500923, 52500949, 8723660, 80621708, 43741000, 56181386, 97804536, 37972581, 60142624, 12667832,
   28893147, 84112891, 32549208, 19215788, 3404817, 83140377, 3733527, 96746651, 80528852, 7940850, 62417709, 98360701,
   14902685, 98849187, 46341411, 20731385, 54299491, 6600864, 78295285, 45705096, 36541415, 86216075, 64153754, 33425798,
   82527253, 30162646, 33610991, 83296172, 42128911, 11823639, 69523618, 21200375, 98358279, 61593876, 38228594, 61337064,
   19222599, 24187323, 44790611, 13486235, 94446527, 72768214, 96075896, 79928512, 35405317, 92137918, 12790200, 36950990,
   28740230, 76667989, 84747121, 23746424, 3746475, 87143745, 66110464, 19883007, 63682732, 72343132, 93845145, 78420585,
   53026394, 83316010, 89671565, 13009898, 43222377, 83811017, 65715245, 37027740, 85869837, 86335279, 12617610, 33399200,
   8706752, 92620749, 2353914, 73859318, 48866271, 55444383, 72766649, 94746077, 15255519, 77673695, 58180202, 3172344,
   63614174, 90581987, 44407301, 27694236, 39183330, 81187048, 17073744, 93093647, 39294523, 90122685, 84442682, 42946473,
   9425703, 88947667, 52066695, 14247507, 59038619, 42720337, 52614300, 1274286, 15690931, 26930119, 51466781, 22810369,
   42130956, 80385711, 43216321, 51166444, 82845076, 31639500, 18488961, 49093709, 28870307, 65731348, 63720425, 31287764,
   35689688, 69158610, 34267941, 9972120, 3467376, 91017266, 31226363, 26433798, 59281219, 40483626, 96127609, 97159860,
   93751768, 67904335, 9860896, 32596163, 11121947, 52676179, 58289047, 85114963, 75345921, 58572754, 83311643, 96278972,
   53964818, 52422105, 15516670, 39144092, 95234721, 36740081, 9979530, 25840099, 41791503, 34418023, 43263618, 59666931,
   9367574, 21059774, 74726907, 791452, 47144519, 797080, 76292830, 48341029, 95435760, 87439182, 69594828, 64891784,
   91477064, 14574454, 10725579, 83482676, 34880352, 71940202, 43198014, 30171545, 52368591, 67994414, 54864201, 541508,
   21166367, 94330929, 61763148, 80198065, 78390167, 41092538, 23608476, 81746181, 1737979, 43250648, 74447270, 41469507,
   45126843, 13024866, 12042190, 72427401, 49756647, 3741046, 12738754, 47296138, 2094798, 9441390, 3940057, 58078106,
   8054921, 68286303, 63633568, 80012433, 63968084, 94047147, 25335825, 18027327, 87875028, 99105876, 42939563, 73548982,
   43317797, 34831961, 78552654, 69213640, 68008444, 96217583, 15059057, 42160432, 47268475, 45910740, 50332636, 57310574,
   94552372, 81451154, 37469643, 87356986, 55900233, 56355989, 20330871, 57293772, 19378419, 57045436, 5006241, 12479540,
   72604928, 45556316, 98814971, 99767692, 98415582, 51473272, 27836677, 89722802, 56145025, 39503350, 50190456, 81416068,
   76395382, 71807062, 47822346, 28559669, 2220568, 95760436, 73580756, 94880885, 36988079, 79468037, 96100825, 57395370,
   93346059, 66385175, 52695323, 2848623, 68172745, 39051101, 79438494, 44726782, 98944883, 24480599, 90167998, 30753077,
   70242419, 32223066, 43124848, 35279843, 72557025, 71044352, 36727427, 95467093, 15938738, 16447224, 48973691, 3746382,
   36438416, 1670838, 67217888, 63687910, 35993699, 86597520, 61289030, 7769528, 67060507, 2612376, 83145519, 56341185,
   45038847, 56059299, 47798003, 44745271, 67788936, 56602019, 90728890, 38437327, 80739744, 91355229, 29309147, 28183826,
   63534089, 6189273, 4477662, 69871619, 65806267, 14918017, 47747678, 30504448, 98787219, 10659047, 31822324, 23726471,
   59800932, 58245068, 55550759, 70408447, 84382560, 72392622, 11020975, 46852346, 54979503, 14358918, 41971153, 47139081,
   92232533, 82571803, 23124606, 14376600, 69529669, 67431105, 77173080, 61908286, 27817593, 31879746, 10162405, 19428597,
   87136396, 17447384, 58301881, 56657765, 82214981, 83028463, 5735020, 63942894, 13924232, 80554119, 80785680, 59312059,
   68509377, 97423020, 77034748, 6103581, 95772235, 30780850, 74455622, 70584411, 36833160, 22850925, 10295362, 85854435,
   81581523, 68780620, 33103879, 17664944, 93550590, 43654729, 71064035, 6455537, 69563194, 1291342, 62754072, 56609938,
   16581927, 46311796, 75566340, 6493787, 63003495, 75438910, 4653349, 14238056, 45980002, 13692790, 95664795, 56958716,
   49448114, 52344543, 42118048, 56118779, 837804, 96155696, 63619342, 38748792, 79569704, 16595028, 45647598, 77959336,
   15632987, 31002889, 58100015, 23472727, 59975359, 70043828, 50239181, 89873124, 10200256, 60422563, 63726704, 5726340,
   92346591, 43450915, 72538262, 7240607, 12774754, 17491626, 8087406, 89893707, 40198910, 18389779, 23797213, 52039056,
   63998308, 39277423, 74644727, 23503048, 94818186, 97517213, 643581, 84811916, 33750160, 9278655, 97926447, 50937463,
   6698135, 87774597, 8139385, 33008173, 70653985, 16990633, 22007086, 67390558, 12985856, 49025034, 68877774, 29695213,
   86161492, 5982627, 25103532, 30034750, 71922060, 1567196, 51767134, 1544781, 92232988, 67398659, 63504068, 14332506,
   66760991, 6786404, 87878936, 69686216, 71554795, 61893706, 67165302, 61205939, 45154646, 76242939, 62891347, 40576957,
   83713776, 21604935, 72045825, 86244556, 86050730, 62838378, 31964240, 94874803, 14862769, 90951046, 69393198, 66034440,
   12589085, 43140971, 75346440, 96619392, 42610969, 21820796, 91962519, 36256903, 72951334, 37801185, 85037527, 53396808,
   67448370, 45914999, 46492258, 96597567, 34733025, 68890869, 60134831, 91815352, 76537661, 45675326, 31718321, 51462535,
   41006539, 54152376, 50815042, 97388463, 21771491, 39473582, 11515525, 57839231, 62309653, 39160367, 9661122, 7824858,
   56882062, 21060863, 2384168, 34673307, 9628671, 41973764, 2297573, 60882209, 75371136, 39569109, 75720896, 88764323,
   59435030, 85625741, 11583866, 89880682, 78543774, 73606144, 80602350, 6489308, 96498545, 46632699, 97574465, 83333726,
   62014695, 1045447, 77662007, 3030426, 87259727, 11551313, 70021283, 90697116, 78084368, 71601833, 19752893, 24724308,
   10089395, 82381287, 61993894, 66697776, 79844526, 3922723, 14261140, 96647478, 96363192, 91010314, 66700808, 17358828,
   76237158, 77868598, 61621495, 39709253, 28174944, 50807428, 94017083, 67832927, 18514108, 75926135, 11032368, 37023978,
   61789909, 22474380, 62755419, 35300194, 57809950, 56367943, 55107222, 55176376, 16877527, 16688638, 30370353, 10587657,
   44238546, 82707638, 34020075, 42846400, 11482517, 89792760, 18864571, 8106045, 27285391, 58635064, 55144401, 57591642,
   85168842, 70180507, 87599381, 318751, 54184245, 78775771, 81803880, 90257157, 878516, 36386915, 1968979, 23769555,
   39363647, 21415006, 1962147, 58714350, 75016383, 27447820, 72664752, 23895546, 82205945, 94450165, 82834416, 85260929,
   49138353, 27264142, 69620708, 6524792, 42739169, 68338483, 31593456, 76377339, 92959010, 38344728, 55753691, 63331445,
   69050242, 83398132, 92932323, 13192137, 91467611, 22144182, 31113518, 19994024, 26760817, 92785846, 32410630, 66941774,
   79590862, 89469208, 3971766, 1010540, 70696333, 55993772, 77761956, 33406646, 76498628, 95994990, 72132613, 87171508,
   84204856, 74145335, 77909447, 96472321, 99985879, 542013, 92541193, 1232260, 67258632, 10975465, 92097319, 32756156,
   83621787, 8188353, 93709549, 61582077, 79096628, 58576683, 68057827, 7520557, 77783092, 26221159, 86652227, 6417703,
   21669609, 27041267, 29363658, 42415560, 52742577, 27168637, 52410097, 45101325, 21368767, 27223926, 88885204, 97594075,
   73791524, 75855864, 43223219, 88047235, 6349683, 19211962, 77962974, 79833014, 1420035, 49191276, 7272404, 516352,
   76013978, 52719234, 43925575, 27490156, 7965777, 58681991, 73987030, 30227009, 84138267, 88090599, 28137635, 26688948,
   48534552, 24437511, 4554592, 30711933, 63814448, 91203495, 44651528, 55005034, 37844400, 27665348, 88660810, 12407929,
   10896424, 29350509, 52292257, 83848640, 27828482, 95193256, 91641179, 28332027, 99226062, 35829245, 52359434, 6195116,
   94905433, 35809275, 93754022, 64184830, 82062585, 84965895, 40343209, 81591795, 71877035, 63908184, 89369048, 7711940,
   66076219, 21105009, 67222611, 96274390, 89478233, 59540296, 45333906, 31501885, 47380533, 17887065, 99641969, 88116340,
   52407332, 50433714, 11505987, 26973868, 60858201, 78544818, 47062389, 16567756, 48681190, 55958614, 37729372, 32686046,
   46790182, 95549579, 66766998, 41914014, 37026408, 76446842, 58944209, 5425371, 7383986, 90626372, 94680898, 68561656,
   81575975, 13046959, 55801473, 85081975, 49876407, 47988209, 81568342, 84962591, 35429445, 48522460, 24234687, 29216672,
   45393886, 73659111, 54788470, 35154276, 21983815, 21816703, 88483038, 34839804, 67946495, 75156060, 31757253, 91151411,
   12483900, 34380353, 41905313, 40540809, 13248711, 64239211, 15369720, 41551441, 25568714, 29483636, 68234537, 87411090,
   78186631, 38905754, 16501246, 2378864, 8243831, 28616071, 56800873, 22138051, 55429095, 64199848, 31423518, 56206502,
   73039830, 19787300, 73518917, 1681259, 8889934, 90784519, 97966646, 28354091, 98185666, 81179280, 65022373, 96121768,
   18951943, 20054645, 6994953, 25866349, 33930769, 35779459, 49930242, 17182105, 15394225, 50027767, 9794296, 69026499,
   51460385, 12071071, 92835507, 60802646, 10958766, 97204162, 49474665, 14291704, 14671235, 65054335, 78287567, 12757022,
   61194983, 94861817, 57060851, 54919288, 59098879, 68367918, 44089341, 40038437, 5133004, 95077445, 18498354, 99667956,
   78349391, 97329310, 41889389, 93968960, 94687745, 32427707, 83584932, 72235281, 85167499, 97371045, 91837690, 16040760,
   72965708, 1886790, 10550518, 75537141, 93154643, 80480821, 86590384, 85782676, 9903822, 57978671, 78720482, 41201627,
   49220204, 97937815, 63391842, 72437539, 39417676, 97379086, 97276826, 51316919, 29210349, 34594891, 73304593, 97731951,
   48052913, 54663117, 69789857, 81521506, 10670949, 90569686, 70049663, 20070462, 34729288, 17198757, 10015910, 27325587,
   82253344, 77310198, 17051366, 20694222, 67804747, 39482760, 80402554, 60051398, 6756500, 42244418, 58161685, 37523715,
   70215975, 80853990, 7399711, 73630716, 34909590, 61145197, 82587241, 33898583, 86063574, 29929422, 62378873, 12159214,
   46338575, 78991337, 26142704, 31866648, 74537337, 93211575, 84279661, 82214278, 77732062, 51356860, 83634424, 25487352,
   54929126, 23908881, 81964499, 3371429, 67983710, 99054543, 56915704, 30669873, 8739901, 65295816, 71020737, 98079902,
   14346186, 33057828, 10800467, 12413061, 56101166, 24811983, 37342760, 75294016, 71906733, 6365188, 6562500, 14460908,
   72568026, 81425332, 14964230, 90415921, 66635777, 90442528, 98331830, 84211859, 30323623, 53613738, 17242405, 67260995,
   58709685, 16290261, 69644078, 40806242, 3533085, 85871169, 59858647, 16672826, 3954319, 13668178, 8266305, 89375694,
   67102504, 91194211, 37729008, 7228612, 22494065, 45401381, 50114197, 60369137, 72599010, 65719645, 21850020, 27449902,
   40884046, 16752442, 92725543, 61853957, 24425180, 12318468, 17642302, 89238124, 68746135, 79357839, 87342449, 62632105,
   35505923, 75760254, 22665127, 39810543, 87241189, 65566555, 22600247, 69397411, 42559514, 49608509, 9972703, 6739385,
   80791284, 84770081, 71832446, 99737305, 24575273, 79343190, 3193386, 17197804, 20114724, 41567354, 8180860, 61208479,
   72336551, 66176109, 57973537, 62948049, 90711466, 26050846, 53065308, 59278400, 80069561, 84442356, 69011968, 71071634,
   54831124, 54086689, 73415474, 78007792, 69104556, 16177924, 12171847, 2765399, 36651360, 81186460, 86326745, 30645568,
   13939608, 59753785, 93891359, 49212283, 86229606, 39160038, 86763319, 14026406, 64763155, 73751324, 92068405, 19280034,
   84413093, 41345887, 21181907, 25249760, 14092392, 97791939, 24594970, 97794711, 7546840, 75686396, 97260046, 60626042,
   17189099, 3596879, 44643551, 61790407, 91696275, 93482429, 10991436, 77685510, 91037435, 87094162, 5860913, 59902143,
   19114584, 53829388, 2857423, 63357507, 13443895, 1047218, 39813605, 8897607, 8248173, 81649080, 82425487, 16677506,
   49185892, 31171650, 82442428, 97450504, 10609077, 77638260, 92230387, 19857489, 51891389, 20998201, 16848836, 51228978,
   35154541, 7170711, 43907410, 23149480, 77847733, 21500756, 69653680, 7649969, 910891, 88869285, 37452492, 88636254,
   92871240, 8708289, 63558110, 57312339, 61801298, 66799281, 46150031, 13146752, 64075266, 54976553, 73755023, 97257103,
   8636204, 28692591, 33187080, 27252686, 68977814, 77281497, 39130912, 80797360, 90230155, 72120082, 80370764, 92554470,
   73376025, 20372110, 43142411, 46000750, 96246170, 40525342, 44974827, 32106475, 68471568, 16707717, 23680111, 44409967,
   33389768, 50674914, 75852532, 57718469, 91145285, 73348671, 73017594, 93207942, 99764636, 94201507, 71728191, 86454803,
   96715204, 48677146, 24636984, 15067365, 49130538, 83015958, 40166844, 57603268, 64348427, 56498717, 16088646, 38917015,
   95921468, 93221076, 14538496, 49605687, 67512941, 8748780, 64848502, 35629556, 7980317, 25004449, 14797797, 42232884,
   87535489, 23048836, 60487056, 4115285, 98269882, 73124908, 22114158, 69686121, 24735509, 9737060, 15572615, 63996475,
   37566078, 49487376, 93509023, 28622406, 27604701, 13300851, 80657145, 42508875, 26197671, 88202173, 70849166, 42097000,
   19286419, 2087835, 18336636, 97808844, 22054976, 75870194, 37755663, 97631652, 89854149, 76564241, 58765840, 30163372,
   38546674, 88084589, 21120181, 63704099, 69190405, 13689984, 76368569, 53086335, 96648822, 92579273, 18442001, 2739102,
   7836847, 22878838, 98062894, 8058119, 2843696, 44673265, 87547950, 79129893, 90268196, 10711842, 41728434, 47704871,
   90672964, 28613781, 35656892, 3770907, 81483717, 40830716, 13477951, 69783335, 19428244, 77087345, 25444612, 71543688,
   22571532, 77242780, 47037284, 57686997, 52532702, 74919045, 21501579, 28556132, 60218973, 57454352, 35379328, 14531918,
   11609712, 7679605, 96215118, 23120300, 95316193, 74008789, 74008195, 62701162, 79526018, 12177442, 11044808, 69573522,
   19053276, 913072, 89530965, 55260441, 99783332, 51424670, 61095559, 2972300, 2299761, 2028159, 82212944, 49444427,
   94615065, 61983682, 80369701, 72796372, 94337937, 73675577, 79602065, 32717856, 6042259, 50086386, 92410483, 73937122,
   86695251, 36390249, 51989816, 49892610, 88806158, 64501417, 94772783, 26580478, 89659520, 27313736, 41896114, 96938109,
   56117032, 93103263, 82448934, 17953357, 94762674, 86996897, 21256231, 65244123, 25067316, 23315261, 18293196, 44040648,
   17095450, 67006375, 95634600, 46616930, 74860066, 94724202, 66001488, 59646657, 98430108, 7029165, 98517044, 24936371,
   88711311, 58290313, 99845691, 35464708, 11927218, 82908377, 21996204, 1813913, 96060346, 9564247, 99014682, 98302770,
   79986955, 57202048, 87404728, 39018844, 57561917, 92015950, 80178675, 19204580, 52488772, 76494239, 99104958, 1665602,
   34049634, 93098547, 89583801, 7042497, 72936798, 56153788, 69626301, 96649006, 93656144, 53816835, 89960429, 30489921,
   19769610, 67186638, 32906412, 15414747, 26553615, 31265097, 94050409, 99142067, 47175407, 98156545, 6131625, 34123944,
   78990007, 63257173, 83575616, 97341041, 85325792, 43493838, 10885055, 76936608, 88856388, 83881723, 2340417, 91705396,
   69322800, 20286889, 77048780, 34663364, 58735166, 51670587, 79377109, 46215433, 76973374, 76045904, 77616722, 7898252,
   15044309, 43103910, 38343379, 63805265, 81399851, 9196431, 89264610, 6085107, 47481300, 79217096, 29036261, 98711716,
   13386193, 89901916, 92229843, 67499143, 14305841, 61296742, 19329185, 83224576, 45285607, 77726153, 24606480, 17147741,
   60167179, 87682856, 35419414, 87963158, 69939845, 93231334, 29609599, 25175346, 78714958, 29698463, 97721930, 88154263,
   50034349, 46969881, 78708970, 83177868, 2210417, 81221707, 47658807, 81693973, 4087624, 27228500, 18280594, 95785885,
   32758918, 31466878, 39301236, 24522855, 67481948, 89946702, 741130, 92432100, 94093508, 38045262, 17437090, 1248984,
   34644176, 16540876, 61214334, 37467836, 48148460, 11957855, 92239614, 18482405, 27236106, 92070658, 19930860, 32569821,
   77207337, 34323260, 60209644, 80628030, 39261211, 36888344, 6654047, 24630508, 2446606, 91569526, 52569490, 43315503,
   87534021, 53845037, 62740285, 43260873, 93063192, 50964552, 2299107, 42439609, 678507, 19931757, 86372592, 36534045,
   88289296, 57848885, 94629472, 80407322, 4595265, 30678714, 93167954, 70797685, 52715298, 33536190, 54462852, 51710038,
   24180771, 50648475, 33335455, 59225979, 94158093, 7016469, 11212284, 10961985, 64087915, 56627332, 86108366, 99914000,
   4217646, 57554752, 67552616, 89176019, 92921885, 15477607, 56435599, 56568879, 9821141, 38988485, 86629388, 8374149,
   35249528, 56109880, 82287316, 53203187, 38631339, 74876725, 77314638, 92444177, 17449346, 40752391, 57584836, 47410749,
   81553948, 22646554, 42024933, 45725330, 13044805, 82756706, 22643235, 80945381, 9241031, 77552665, 94480710, 97905163,
   69530191, 83283602, 55521706, 22362965, 83484270, 10026666, 246537, 25521907, 26556922, 6451537, 43388054, 27022611,
   99307014, 49523490, 45774823, 52047096, 45059679, 81595366, 83843707, 93748029, 84190515, 83810021, 49163392, 77117218,
   632278, 97569435, 59482342, 42157593, 61533996, 95854501, 36782505, 79162471, 62363335, 68636580, 85710138, 94795518,
   60176392, 35512482, 90209305, 80288723, 38432784, 75488621, 22005098, 93705407, 62918290, 72023553, 98567776, 65014244,
   87787492, 44833369, 96540103, 565186, 58951670, 97383552, 96405317, 83567156, 352644, 25348159, 76027905, 58018692,
   68356005, 26496972, 19661313, 17030545, 93678627, 74545339, 92878132, 62842121, 41252739, 90259129, 80734829, 35141845,
   26138983, 79734443, 79706058, 62333773, 85136777, 23162970, 45018490, 85965161, 38689226, 63958602, 82492550, 4958301,
   46093628, 26343468, 61998170, 6483704, 84854123, 24759967, 85495452, 36176028, 28891986, 11804110, 69882087, 68768545,
   53757990, 43202330, 88135735, 4388696, 75719909, 75394300, 2591425, 1902781, 53942758, 18429860, 60131634, 96797994,
   17738068, 68118342, 2418103, 58674224, 15634928, 56175940, 89420392, 20412184, 15882123, 48366997, 34163822, 84551311,
   88695254, 40549199, 39831205, 86394518, 93215316, 41103899, 25694182, 10258432, 65784448, 11078941, 60326199, 96781166,
   46831959, 93372493, 60871852, 32128099, 58210551, 62155553, 16144192, 74454262, 62999036, 55802055, 79409059, 35265498,
   5986802, 32896134, 80800445, 10260464, 75186927, 2053173, 72086097, 52549121, 10607845, 3641205, 65809097, 12561964,
   79505896, 99529878, 34361333, 46516209, 34401871, 57136297, 48305233, 34400993, 12555210, 74911009, 89109561, 62457491,
   68456865, 40819419, 46876928, 51562179, 30278906, 9737344, 62649147, 25835394, 61305008, 30080527, 68672285, 48170986,
   26689608, 47579644, 32178092, 62528299, 38348722, 46115834, 30365745, 22192046, 72654257, 31869003, 65911164, 8786504,
   4598190, 21965980, 23148521, 4699007, 26724768, 19523515, 70119879, 72122205, 89191418, 25509508, 64838669, 61518645,
   84356175, 60849809, 70637080, 1431552, 96916169, 80139460, 10888961, 79752159, 9203601, 37846605, 73956548, 84293999,
   71553164, 1447810, 14437696, 55592621, 41681513, 87426843, 52266474, 78627433, 84824565, 20258749, 15816422, 78466222,
   31115522, 24112273, 469440, 11395965, 58151952, 7098710, 13083605, 22301273, 13837534, 22724642, 81745268, 74572671,
   20706392, 53460234, 1466246, 84656649, 1629674, 40280330, 30576684, 12986286, 67421648, 13752494, 50039646, 76157825,
   82648136, 9884030, 22273273, 3111564, 60350075, 7805213, 35693089, 63912372, 20775865, 64432838, 60990335, 48719643,
   2320553, 18261134, 54404960, 16844183, 82675340, 32880643, 65873455, 68298957, 92226390, 98792352, 48519687, 49354872,
   45843808, 94130614, 77364325, 74742974, 73726134, 48860181, 17115129, 84398388, 47333900, 42419887, 45015371, 97168353,
   74384748, 50982840, 81727347, 47973085, 84293038, 69541148, 35782726, 50063723, 11278792, 17535811, 39429479, 96614727,
   66912930, 27200956, 61681868, 45892424, 8298370, 76015121, 47450501, 68615513, 58527539, 75723442, 17205709, 55194060,
   69882006, 38653332, 82145476, 78598359, 72210807, 78186602, 32664838, 82813150, 20033211, 29258498, 13669169, 89160140,
   54254496, 44895669, 99318974, 57300723, 61534935, 22632974, 84990459, 56378335, 65659925, 65730295, 68854597, 13005409,
   34683014, 81378911, 77541525, 15604899, 24980475, 56210774, 77582600, 23597908, 74048139, 73432862, 82344203, 85708542,
   63645239, 12624650, 18823773, 79423015, 26549417, 13227512, 82140911, 85078359, 95680575, 91319720, 65410840, 56462621,
   21184939, 69352592, 10415165, 58798637, 65967922, 49513189, 76766056, 87704411, 24591866, 55363608, 99249124, 17293282,
   18366387, 29580618, 4675682, 8742275, 34310791, 93606172, 42918497, 54067459, 17322254, 1909948, 25412431, 66211115,
   66556969, 78733122, 51010932, 46666094, 27068182, 24800360, 28917874, 38816987, 15504982, 49806100, 19995104, 46039899,
   23569583, 84444047, 90023981, 96929543, 8918902, 45172103, 17429736, 49501513, 88835937, 78372714, 38656183, 24639225,
   69844708, 92650954, 21257817, 91623589, 53095885, 24823319, 88638483, 89271190, 72997142, 97983445, 86421425, 467290,
   39858124, 44661321, 55259260, 16586860, 29959842, 83274285, 29928649, 96288301, 79430089, 37618740, 73041567, 27704719,
   71459191, 60510079, 33447335, 60638515, 91721071, 62226497, 95746096, 34129882, 67702490, 43283893, 80996775, 80214239,
   58072725, 55066496, 40943630, 5821462, 24406359, 10352281, 73662152, 27979370, 18813663, 97141673, 1565086, 21254984,
   7322511, 97878310, 40069389, 99003287, 80690788, 61790704, 11649815, 77528795, 42500582, 29910813, 57581167, 45420421,
   69363977, 77122810, 42075712, 1220305, 7626069, 85058731, 56046218, 27891608, 52898034, 60682364, 28773675, 6541012,
   19283209, 23683155, 90772298, 10133409, 77987976, 43881142, 94517004, 23436540, 91261800, 76436778, 39674407, 74010476,
   76678747, 69417921, 71109789, 16796496, 982236, 2156774, 71909242, 96019038, 54036183, 19193639, 26982208, 73124053,
   96788299, 54169629, 60860542, 85687433, 3127176, 61330490, 1936356, 84840084, 31322981, 34632427, 13306829, 77370341,
   95761770, 72903066, 11437341, 7709143, 17269332, 6357509, 48524323, 31822140, 24318877, 7111887, 49700547, 41278170,
   74385296, 40576167, 69345871, 14141608, 56266168, 65308658, 18323205, 3122916, 93960332, 58716290, 86092151, 39417300,
   5418960, 47556968, 86295418, 34413239, 59220239, 33513256, 23683662, 39125261, 76690694, 7495039, 13636968, 70506071,
   83329525, 51853211, 40708515, 78519044, 10646623, 6521351, 95558111, 22082132, 89030698, 52644334, 49664560, 26956649,
   10682427, 79501692, 27102510, 91692009, 32085143, 84595487, 17106313, 95589367, 77766867, 87898595, 43535924, 38919574,
   542517, 78313457, 82568942, 42664127, 24067899, 80413082, 73132713, 44533943, 22156873, 73879748, 98495578, 54006324,
   88087574, 85677316, 5354872, 25347363, 75841670, 53339201, 48652533, 77366861, 45413894, 15364800, 26596466, 69518064,
   1167744, 43064557, 41263625, 33680737, 33188836, 75401602, 80211390, 44762988, 79488264, 63012636, 99676488, 41255876,
   66960747, 27372479, 37531072, 41899741, 9911728, 40550217, 54419133, 83409748, 71240648, 72701699, 39066537, 42574921,
   14312801, 35692353, 86199618, 81220134, 42196648, 22326690, 62031666, 71432776, 5091542, 20639471, 48059145, 60970606,
   49710233, 22461930, 43677427, 51488357, 52413005, 66699693, 12597645, 271986, 95744188, 94109360, 3370304, 11473079,
   74540309, 91904398, 11592270, 19599372, 70296205, 40724960, 2168512, 35496871, 52438462, 5846130, 55499684, 49859333,
   93498713, 53387842, 38595187, 32305110, 15220036, 6356506, 95444822, 53215925, 11486134, 24756146, 78720099, 98947083,
   57509405, 34750542, 30158828, 2387605, 73937098, 83484113, 28749469, 76005888, 53773310, 44800949, 75585567, 37942679,
   68097626, 21636292, 51991500, 12576422, 86261043, 9091134, 35352691, 55748162, 59922872, 52476812, 51349887, 9292376,
   29990762, 97415248, 71243575, 29258773, 11117734, 89593726, 15537779, 89944996, 52099344, 81406115, 31920025, 69357113,
   79066486, 37806801, 60304153, 25351804, 61844069, 46824432, 3595081, 47599339, 61039236, 53642105, 55848732, 61621438,
   57592170, 19443589, 25275738, 1285358, 43498367, 49462513, 20361839, 81672733, 56987918, 96892017, 98322790, 47574668,
   63633183, 37049155, 91227520, 67776980, 36693235, 7021729, 6052820, 71037151, 5748244, 18806823, 44297927, 77228819,
   64697593, 47376103, 62189143, 33469652, 10170446, 79720270, 69494603, 77380774, 9108871, 26240298, 43213716, 10135347,
   11093363, 135353, 13213936, 77490499, 46705411, 22116918, 91772959, 62935888, 18299263, 73915364, 16391693, 68452745,
   74326024, 64712279, 53109623, 27509458, 84364559, 10118068, 5384805, 45744799, 17808113, 26642575, 25568128, 49812119,
   52712214, 5005182, 81293475, 61410843, 45053305, 91574215, 59447348, 33920567, 33969861, 47147443, 40033093, 52591277,
   93046483, 3548870, 85653891, 38260057, 51435950, 31516299, 54708524, 59091439, 4377030, 81945771, 59469403, 39378771,
   9404282, 83901749, 90286500, 19179235, 17587296, 92479129, 81761582, 9953449, 1652683, 17966456, 48058598, 20189117,
   16279623, 79893896, 27202510, 46886993, 37769123, 26166508, 93518688, 5087051, 56329742, 95440859, 81686338, 36386199,
   95715408, 3347342, 55515208, 53656811, 38812631, 56065308, 93701849, 20321627, 26931613, 8196494, 13956110, 32953555,
   51913267, 14178267, 6286122, 24100913, 86260194, 88532133, 93772668, 84482413, 45010888, 83320888, 3411351, 42242395,
   16283652, 20913859, 1966527, 59024369, 80813166, 35783208, 78572817, 4370621, 19567218, 25721375, 18015615, 90111054,
   11538739, 83568238, 50808267, 37815119, 96369710, 26874738, 10866524, 51345364, 5885177, 42715384, 72020298, 90552560,
   98184038, 40500940, 67897883, 10534698, 38891484, 49036410, 87172224, 41500451, 56200110, 35466196, 10402978, 57384295,
   716126, 15191634, 67068588, 64495014, 50380244, 65282259, 82820206, 43055197, 74526462, 5214802, 58510619, 49683489,
   67063373, 43854333, 17159056, 24652864, 61853881, 68018697, 32261574, 13824155, 26182474, 46463525, 53764701, 53188221,
   22114670, 47369875, 71488643, 61093864, 24070646, 99230360, 49164446, 98498075, 30116321, 66049796, 7411248, 97974910,
   56844748, 81493219, 37275662, 43026779, 9766546, 57328753, 80470580, 11485434, 91112464, 56243693, 29851063, 31600637,
   23348325, 75263344, 79820267, 31582957, 51777088, 91610408, 33826706, 16719216, 15562970, 66997213, 35475424, 25592089,
   11568722, 28113969, 24558529, 55718805, 67812887, 62153026, 59328281, 57375179, 83290388, 4491343, 65225963, 19874770,
   99153397, 63410401, 27819921, 31141987, 51710168, 97542329, 57136883, 58265026, 9554309, 61025490, 95432300, 15751963,
   57910506, 42435207, 30851237, 39255036, 197616, 5031731, 32178555, 38488803, 62732750, 59296936, 45337164, 16823353,
   6832835, 26579172, 11281901, 95679480, 81358100, 29147032, 4340252, 51719263, 37953316, 28238530, 49688189, 52761034,
   21593929, 77638809, 25065243, 57519805, 30050265, 45291322, 92769888, 81383034, 80404579, 26742722, 49516619, 41874478,
   79129360, 99055013, 62091877, 67913786, 26618315, 43108374, 91990699, 36995643, 45774928, 54187126, 76853575, 93834106,
   70087372, 53925259, 23689733, 38369315, 68333146, 63956708, 29898996, 6803609, 97839857, 56866415, 75182796, 22860591,
   19364131, 53349282, 93741234, 47557461, 11071348, 91519984, 62578669, 41178809, 71745595, 39640962, 9181073, 61738666,
   12959616, 16294357, 53829742, 98780006, 17500806, 81686293, 56429053, 83810553, 27595703, 33921596, 67432706, 4323274,
   38460880, 83216226, 56472586, 83184781, 18364952, 56729846, 34727740, 28637292, 42251700, 94322270, 53619259, 84986924,
   40931214, 36342619, 83620494, 8577974, 82306279, 29500968, 10780380, 35295867, 84348450, 61752535, 72844833, 57639246,
   1817989, 41974954, 18287268, 56450682, 1548871, 94614287, 70533600, 79118539, 82979823, 63482780, 47132860, 24708106,
   60539925, 21674195, 91363135, 9773393, 11384260, 64744597, 18472412, 45795997, 76322547, 36805214, 17563611, 29861053,
   20565149, 14963706, 21660305, 97336144, 57501751, 16651930, 70813696, 32635822, 82290485, 24066158, 56187320, 28225518,
   17115508, 91811775, 4274656, 70744026, 30913297, 75601506, 10005946, 26524060, 81929017, 4501553, 71983225, 33294671,
   93350971, 88765086, 68645889, 19713562, 91452370, 32282293, 70424985, 11305671, 60056658, 41115686, 97742759, 72277805,
   43818876, 53407017, 60697750, 71541684, 72250502, 59295947, 3104351, 51688507, 97156798, 94555051, 55768887, 53842296,
   55977070, 10377583, 23747539, 36173966, 95155766, 75235415, 96840494, 70848220, 58539748, 91444396, 42818973, 67677357,
   13478655, 15230391, 72777816, 98815591, 23989681, 4871583, 78930420, 5657379, 28570870, 68068012, 63718929, 94542084,
   90082747, 67547741, 20470974, 10221948, 67038101, 35397946, 19596196, 23513758, 37268004, 61084294, 39786262, 61683804,
   59088529, 6056098, 40081588, 22461509, 92835186, 61946989, 56096464, 52290571, 77133017, 64000049, 60539363, 51037229,
   83252279, 38440014, 54360964, 40569377, 62253703, 76377419, 14524048, 65269657, 86265197, 56499, 27922205, 19179138,
   1443283, 69722458, 94470061, 6703358, 87705126, 78283007, 16644102, 15583213, 30924251, 13549046, 93055818, 72632252,
   32939085, 887528, 1542295, 15330035, 3140827, 48256463, 1623311, 97265793, 70466717, 32383063, 54619852, 15112953,
   52226945, 84369908, 42605412, 47022018, 59728403, 65061233, 28968078, 33253358, 51284495, 62735878, 77054316, 40532303,
   83348467, 94938756, 8461691, 3383962, 3277289, 48574166, 41419808, 32358946, 88599507, 26548855, 74003342, 68804714,
   50333993, 64972292, 89015441, 95773061, 66361670, 13957343, 82985953, 49253264, 9697390, 34931495, 88776499, 99217977,
   51883685, 74720541, 92319029, 60256994, 40790921, 93486623, 71973232, 1722744, 19907399, 29851745, 36171247, 92566877,
   41813344, 148020, 76489299, 39455761, 4934660, 97629860, 12735639, 72899351, 76345601, 95821842, 14668231, 22560050,
   18286073, 78348955, 78480916, 83195531, 60642469, 3694102, 72974077, 23530960, 95127820, 73517434, 43141665, 49000690,
   49094871, 11831287, 84090897, 90358476, 49748805, 35858249, 27056685, 26295354, 92976797, 99603132, 58225214, 33558310,
   5231979, 44471646, 16517466, 53526544, 40417939, 67228006, 58576084, 43627495, 60717332, 54896487, 50251810, 26897092,
   50861011, 93064229, 8714540, 38851232, 95211378, 28101710, 24147641, 64001735, 84812612, 6012159, 3556315, 16642958,
   93638490, 30341291, 46851326, 1639129, 99853737, 49136458, 42057991, 90103759, 32122280, 49603562, 89225177, 45793772,
   6042034, 2978057, 62688819, 47290339, 34931296, 81373229, 45952138, 1007559, 99714695, 40320821, 11742295, 40924792,
   58283398, 66151532, 32501808, 55061184, 53037545, 13996402, 97114126, 53462651, 96695694, 99401017, 11780318, 38586645,
   93371216, 41250954, 28874353, 69563962, 56111117, 47255581, 80348429, 77786095, 64543601, 36504133, 51112015, 33064130,
   41382618, 36901017, 49537717, 34863876, 68724275, 69067585, 90270573, 64993149, 32053442, 36583269, 42512449, 12525616,
   85286557, 77855233, 2385277, 47384543, 60906572, 35877420, 80244111, 33491976, 18029438, 97102011, 81522971, 81863024,
   54627369, 61196020, 63661149, 77683583, 51042369, 67406234, 68187297, 71322217, 23724273, 85155557, 21795773, 81739681,
   85152259, 16826622, 71822697, 11857823, 51210764, 53017556, 41223548, 46909368, 95696334, 81753604, 30103579, 1650,
   12446491, 11364404, 78138659, 96994565, 81801636, 37948222, 13886026, 71902605, 50607836, 46242169, 74701962, 58415816,
   26206331, 85828119, 43718866, 99986171, 64199936, 31395224, 30099400, 79148634, 585170, 79307175, 96220905, 58749868,
   23473517, 48233967, 23640339, 35292746, 38658202, 10130603, 96834497, 43646536, 24606571, 28523656, 40219173, 64256196,
   32396810, 11528037, 72626423, 71437623, 37895278, 28524806, 49038861, 3171452, 17083035, 16969809, 42773651, 90455901,
   9861871, 9328844, 24672058, 74885829, 36484214, 43109102, 10387926, 20779155, 33732181, 44685854, 22955280, 8358826,
   41374361, 41192041, 3568531, 2136897, 25243291, 50210674, 40881364, 56523115, 24527436, 93410338, 23280512, 27751755,
   90064079, 66935840, 48890208, 99013354, 26827938, 95191709, 47064366, 80561557, 87769095, 44483690, 716862, 34062196,
   42206166, 21950596, 72398284, 62955884, 36659634, 25681649, 73155562, 93671063, 71380288, 53961945, 23222117, 70487406,
   47526841, 24426742, 57253766, 22107739, 22309882, 66772742, 37828325, 25764809, 94185141, 99507141, 28137474, 6132656,
   62157290, 54861964, 43507339, 31549140, 65704940, 54817367, 11670950, 44972354, 29351475, 6791120, 73841280, 92166435,
   43837192, 28718432, 53183293, 6553588, 97911879, 85124090, 80829448, 61338315, 81990117, 6689648, 67018637, 98859953,
   25416698, 76607353, 57303650, 54586174, 22087971, 76064205, 58361683, 7251697, 87367497, 45575248, 63451295, 50994020,
   31460572, 6203053, 7292992, 18572702, 67335018, 80217469, 30874795, 46509384, 44095430, 73297111, 49757445, 45070328,
   59465758, 84676707, 32782885, 82248404, 7463684, 81391676, 68546066, 68015667, 27305812, 40030373, 18711756, 88228304,
   44332403, 67469865, 68219783, 78954813, 29751002, 27340683, 529172, 31304959, 37792327, 8151683, 82280178, 20815895,
   18314818, 80830850, 79374843, 33240088, 58657450, 61358206, 77489793, 96993302, 1388384, 16866256, 49378357, 52375337,
   5614374, 58070425, 39702035, 78691826, 3028409, 84639050, 5101132, 59037782, 19224623, 35533280, 29981867, 33895997,
   74893098, 42923269, 30843885, 72040448, 28539726, 39089558, 3108835, 71814975, 9466689, 26312025, 18047176, 11726080,
   57144055, 28459828, 41361749, 81622096, 28405247, 58004692, 34194464, 39659839, 17003229, 74434025, 35988847, 96015927,
   63066625, 26016795, 48252141, 50627012, 72967848, 52410129, 81181926, 92000582, 53918532, 8691775, 83384960, 58138637,
   70119336, 67104127, 54835776, 36123244, 59347075, 60238810, 46014174, 93255235, 81696722, 44077164, 59555698, 50275437,
   98463238, 34890365, 65169596, 3792978, 76685041, 97201070, 85357352, 83584285, 34984763, 54577995, 58760729, 72045769,
   52037697, 63129917, 98207239, 58119084, 75721594, 64020862, 78358525, 42629626, 1283081, 93244127, 25010843, 3385670,
   87731079, 66223945, 18864280, 1522361, 57265030, 8593290, 91524546, 40324996, 75713971, 98008930, 44103817, 39730797,
   95144954, 11935262, 22993419, 52692315, 77511823, 38064964, 54484478, 49296125, 87603064, 35456707, 63037997, 30908572,
   30297259, 16435837, 25065205, 17571876, 33258007, 50218258, 22792612, 25706622, 63618260, 59752792, 58535290, 22912785,
   52677600, 57711235, 57050567, 19603906, 73012800, 16199757, 57443918, 47731559, 87854760, 11421745, 77644010, 44271914,
   60810844, 35180109, 94547702, 80725225, 49331210, 53777394, 17909954, 34008326, 42871605, 44038187, 2387346, 3601926,
   11571713, 78633263, 16415270, 16204239, 46072504, 47839518, 54220013, 191581, 55557554, 21052136, 91937590, 35834358,
   21127470, 59913246, 4355414, 66624291, 18204647, 83349297, 98456415, 80494873, 6731319, 64595220, 23027678, 72919228,
   76979769, 47524366, 95650677, 77101082, 16146933, 40825687, 71792946, 82849286, 9869581, 66757815, 23697738, 34795401,
   19653839, 9948193, 21138376, 83858764, 19716780, 10219980, 25004842, 36409939, 32721662, 20078151, 47114949, 98612981,
   23555730, 78114542, 95596946, 58971999, 38669172, 48811135, 40576153, 59613357, 66945300, 28222521, 75187795, 19699880,
   70966446, 68634841, 314656, 77070828, 97408102, 94730244, 27632607, 47999375, 10926392, 39354597, 90167355, 85906823,
   16033572, 6949498, 14631687, 79135053, 49928616, 82539241, 11024568, 57955980, 14519544, 41182400, 98570041, 54951082,
   43801257, 64393066, 30983143, 40576416, 89434925, 17259531, 49331660, 44632111, 69292222, 31380429, 43438943, 54896494,
   66788713, 38187532, 25400230, 9239957, 38262029, 99749951, 7877909, 10708151, 77167831, 49553383, 45525837, 58614547,
   84911270, 59137936, 22572058, 89697222, 71614188, 43338060, 91982616, 69539298, 31544983, 61982015, 18525425, 94302259,
   26666172, 62650976, 89374672, 5574428, 60912182, 21271433, 94899973, 13731051, 34171157, 60692999, 59775259, 4598904,
   29828892, 25615264, 26793964, 2852863, 32061333, 11757138, 53418695, 35944813, 28030162, 28357493, 629783, 4128334,
   1836740, 19161073, 75871995, 66289453, 92150246, 59266792, 14583386, 70885267, 30134577, 69800668, 59900484, 42280677,
   54824810, 10648480, 52552910, 24368395, 7302004, 57770830, 94880070, 88828594, 85968345, 88139601, 92380799, 32947869,
   84953335, 23145265, 54754599, 27431757, 10791975, 53461499, 50137606, 16016047, 1681344, 1175140, 84209665, 22332724,
   60167007, 22384647, 80625335, 50446088, 11468609, 59186380, 20268415, 62769670, 23647487, 31200434, 53482702, 13941369,
   71315056, 30144458, 87064445, 59444566, 94674469, 39657804, 92003775, 49418810, 55361367, 92001004, 23817686, 47744519,
   88502016, 45806040, 54138676, 22508772, 73946065, 40977621, 54451427, 95285758, 11894113, 18880912, 22709099, 64083872,
   94542326, 97229423, 40117866, 61411488, 52446824, 574650, 27264333, 52580058, 1422636, 65421964, 79578505, 47095026,
   7143672, 71216253, 38086444, 2726357, 68901955, 80708905, 15897137, 82010100, 70106192, 93753146, 41636278, 69673425,
   40842119, 82601645, 71582841, 54168169, 67050051, 37667638, 58214456, 37999413, 20904787, 77204113, 5778169, 54467133,
   36951979, 4069120, 10759982, 47692577, 66107248, 79711177, 43304776, 92525669, 7207402, 46699675, 67043059, 26418072,
   29273099, 81068582, 62619529, 43538587, 3136079, 42046457, 4242615, 74967987, 6062625, 5653168, 7604053, 40626495,
   2048363, 12640967, 39184639, 99681582, 43992771, 80847103, 56062949, 46789340, 31675239, 13473073, 51637097, 98959283,
   82742074, 97492840, 8693696, 94446692, 50818125, 2691872, 58306375, 43170453, 21597269, 61255118, 97233815, 45150567,
   71079453, 76033669, 61066438, 82412788, 71472140, 56730065, 67507846, 95722352, 79017724, 544413, 97910710, 45571746,
   12094837, 52453482, 8041264, 83538945, 203208, 4354262, 82074514, 92158681, 86786606, 72081964, 304281, 96972342,
   48451716, 21358423, 7212292, 35863497, 30949660, 48056902, 85447854, 25583368, 94315906, 20909231, 28733592, 17382048,
   25083371, 72590589, 19259355, 46440961, 74768378, 97318633, 50542941, 42502498, 49404064, 77420080, 20519780, 4227748,
   10914118, 82316112, 77363064, 53069384, 48264697, 17535508, 41744841, 9446896, 74551391, 95856319, 43871843, 22695318,
   82516148, 9814637, 14467506, 72067089, 86079632, 4265310, 77112092, 4720085, 38950367, 44387662, 71063165, 81837976,
   3190688, 3076929, 26561619, 75179230, 92679821, 56953445, 72354623, 8083161, 91060716, 36800225, 95199046, 21469555,
   43643657, 97989449, 8088548, 94434482, 22773956, 52625721, 66208770, 29289196, 49996166, 78573816, 31704486, 81267824,
   83341198, 91234115, 3697696, 86319415, 36208704, 70486425, 64120289, 42753678, 46927361, 65154042, 57452510, 94146857,
   62165045, 54589651, 48367991, 54574037, 70929103, 78194724, 22712969, 29543015, 13684219, 96190698, 28773320, 88220372,
   67774747, 54282100, 94133965, 68809303, 96614362, 44783788, 91711199, 24829217, 75709919, 49948592, 7991278, 55458834,
   11974748, 69599310, 42713027, 29760892, 14058697, 722384, 64861828, 62195317, 30334409, 81504151, 94310858, 27716668,
   42205901, 73593982, 20676012, 94475315, 88339864, 14103360, 63382305, 71239755, 76566945, 68635979, 93742449, 78985024,
   99783965, 50190001, 36385461, 23714294, 28487616, 45983961, 46109441, 4502310, 8577419, 61187885, 49219726, 2800623,
   90097519, 45551829, 13403633, 12488624, 18778894, 40832500, 89079278, 79896992, 36878287, 95493021, 94665190, 78660438,
   29311767, 4066921, 10387987, 76804169, 35108412, 48893783, 25088413, 85521857, 37104123, 1448762, 64946969, 29081673,
   2635365, 990903, 84276562, 15230166, 90107979, 92184685, 93822857, 11195300, 80849294, 86925785, 85438826, 9010252,
   14440350, 71964855, 32811096, 63130104, 3103830, 25615770, 93345006, 14277134, 20337254, 87647089, 63904790, 39825946,
   21003586, 59236899, 90876035, 21862491, 16436424, 96672776, 66768270, 49867732, 22826861, 43981103, 1048525, 5127325,
   43321148, 54647789, 8493348, 11957764, 64872563, 49341295, 47874894, 98269630, 86675557, 70728524, 71805541, 37041361,
   62921625, 71232549, 30119610, 85228132, 69380397, 14087944, 42374028, 30029436, 39174391, 94557792, 43317027, 2506099,
   38412989, 95179315, 82841767, 8437393, 36619192, 19129284, 45862596, 61642831, 30894521, 94720377, 53587985, 35244004,
   68675069, 38728782, 3812977, 18133149, 22528411, 75889822, 68811407, 26284620, 441453, 60719707, 57943643, 59570384,
   68874686, 11584346, 19950668, 54226643, 38303100, 68797536, 77273899, 46632075, 54464680, 52009665, 85071902, 35877138,
   20536223, 56487877, 78843428, 31327858, 71124349, 35097053, 32246548, 60317896, 610977, 17177086, 74654516, 91456870,
   88672064, 87560041, 60943633, 32178567, 97335877, 37807657, 18091920, 73688458, 10688547, 86486322, 50695021, 59085461,
   57185043, 55251817, 44836974, 18489327, 51766145, 29783753, 87808067, 81212459, 91854636, 81514695, 31229840, 49645726,
   56342299, 41234463, 51604612, 52993386, 23529969, 80996290, 42053228, 98695384, 89362082, 38054735, 65659668, 57436372,
   79537368, 15820106, 54382426, 73526537, 74855301, 38609174, 26353801, 70486012, 26652128, 39987999, 9832618, 5124422,
   69601514, 79992565, 25922171, 90584215, 58634241, 4016771, 52432385, 49239469, 56400561, 37542294, 59468187, 59054980,
   42437166, 25246523, 13401676, 30026912, 75923850, 51495227, 31348274, 37740275, 40599472, 34616613, 45323015, 64145897,
   28259257, 4939620, 85376597, 9984237, 30772394, 81827923, 72804816, 52878059, 34482763, 59860636, 64653710, 78354923,
   45359544, 6193804, 96149505, 53648002, 1127452, 22934058, 92232185, 33638162, 97370859, 13740696, 19257597, 39044352,
   27727523, 54648859, 54182551, 66003366, 50604672, 78235543, 42221111, 24402487, 17458776, 11258456, 50981012, 59430198,
   62547850, 12917327, 69537935, 72258736, 91863010, 96047480, 8540973, 87137225, 26156366, 70870474, 299444, 6781997,
   99533477, 9949881, 69439775, 62185607, 6861400, 91241294, 18118524, 10276463, 95398313, 66384029, 42903946, 50036215,
   63062062, 82376806, 6862981, 70358724, 30744684, 32491775, 40908364, 71890004, 32236993, 980162, 1259687, 87685816,
   71043448, 32787549, 21775668, 90067519, 21714784, 52725073, 17739007, 23095558, 92533257, 56203572, 94642799, 7499091,
   11903127, 73141985, 90941170, 28039788, 74100497, 26119897, 73028254, 26852282, 50246388, 43659143, 23913946, 29918700,
   68414815, 34866171, 69946807, 4003956, 7312480, 65384516, 26144763, 69711369, 63799974, 63738106, 51464065, 67421062,
   20260739, 30661714, 34302529, 41633821, 85480002, 4888823, 39151790, 93502749, 49769534, 56618616, 25966649, 30708175,
   99985823, 15317974, 31799601, 74936206, 6014998, 70810738, 55134880, 98323188, 3471312, 14011550, 41761545, 91948907,
   28359736, 18335661, 90722882, 8672200, 37329812, 3283683, 3775148, 681386, 91734070, 16512993, 75403025, 93478716,
   62514717, 49168397, 6077605, 23698369, 55049103, 11868866, 22793618, 76471144, 16909255, 3644361, 43472433, 463503,
   99818482, 27545501, 13537761, 63583879, 19632106, 5096002, 81774993, 20112924, 96966657, 65485594, 12212055, 69088426,
   42443732, 45233103, 99130383, 170883, 70299462, 67249025, 9779858, 82981206, 44604765, 95498678, 41500579, 91420285,
   15003003, 8234544, 75779787, 19139444, 50268343, 62825042, 89828855, 11859931, 41495320, 63494211, 43598600, 23982854,
   88865059, 71034976, 16629959, 48681109, 72148301, 47812943, 13040899, 225453, 86655070, 29425537, 70304433, 78978930,
   14266570, 33516560, 15319327, 31208822, 57283507, 70463717, 78944985, 59894612, 40573481, 67006052, 74405964, 69074001,
   17098712, 81913458, 43298408, 4273321, 77922752, 5939296, 14439714, 14964224, 37268799, 76999753, 5903274, 30037718,
   18333245, 1302804, 68625838, 91514275, 23828325, 53922890, 306608, 83507440, 17634832, 84903446, 27772865, 34764567,
   37918997, 60521203, 88207249, 92408523, 56429534, 70321339, 55563532, 21663571, 68084031, 97089418, 51847785, 36069991,
   25511408, 98285749, 52880106, 1886236, 38449494, 22709979, 28415090, 61670123, 49557962, 7514722, 90128891, 57980921,
   82831425, 98353495, 99583196, 19848360, 57896694, 27138530, 59350690, 78217436, 71118875, 60295357, 67238019, 64005760,
   88177906, 65834830, 38515256, 16167665, 94060378, 96528712, 50045207, 84992043, 66660576, 40104231, 14733142, 28127882,
   18615506, 9354988, 15668557, 74545067, 16260499, 50918669, 15730094, 5926377, 46191580, 17792729, 55805683, 49766759,
   73396315, 97974502, 8304512, 35216167, 74342091, 93997995, 97577418, 45278029, 13293327, 21818962, 87941598, 47280989,
   30405989, 75275785, 567686, 8633496, 84697591, 68991482, 41134571, 60085853, 12305062, 44447000, 21264750, 36807635,
   71142099, 48339150, 76294877, 49206565, 11325287, 85878983, 38928228, 58108997, 81717506, 4991043, 97231597, 21467638,
   94725875, 49986111, 30449938, 11172761, 63848802, 98643099, 10409708, 58394486, 82006093, 77482958, 60930826, 47601789,
   99089870, 91728114, 12429695, 66356656, 22730241, 25811052, 71495972, 39121443, 8049021, 37096904, 93251628, 66371718,
   36031508, 57410516, 45792415, 9683828, 73074590, 34830116, 12333454, 61215369, 2162238, 82123775, 98397039, 76839378,
   25393139, 98144497, 7635639, 32671734, 53268283, 15049559, 47140062, 47217517, 40152682, 49134007, 18597596, 21378036,
   23008802, 11322208, 40272785, 82765380, 127111, 44977205, 32877126, 57362575, 32411568, 51473790, 80936353, 20426739,
   64037789, 60218620, 43200360, 37866974, 43794474, 27342841, 362974, 96666048, 2979719, 56392947, 36678828, 41897397,
   46462329, 81925848, 76249246, 6117855, 40668178, 39019150, 7256668, 16925795, 62886480, 78181798, 68217309, 1714591,
   39826450, 96719306, 12573326, 37527723, 89944580, 3047908, 1862865, 5294751, 68215640, 27151567, 69860747, 77995820,
   62852552, 83262720, 70469748, 23693038, 83886253, 24391694, 48798460, 5716390, 89600194, 75359723, 96984004, 86639436,
   90310777, 59805491, 84136878, 44915725, 64305237, 97590746, 69234067, 84983584, 7562695, 30564083, 78300630, 89175806,
   40455661, 59496489, 92811401, 18121167, 78384408, 28253498, 68539128, 14699060, 46974432, 6571187, 41019280, 79082526,
   82224640, 66239508, 1028265, 30868894, 44049088, 18297829, 24516981, 99305333, 4509506, 74213986, 19795083, 6459405,
   64058791, 62010429, 61153198, 19472451, 51305200, 21997194, 27753251, 29171768, 99949604, 47323371, 6095030, 56702392,
   99681642, 13457453, 98853992, 66349873, 30596482, 25480208, 84547617, 28978126, 55551934, 83348979, 44034695, 28716973,
   27037000, 51603085, 56955949, 20634128, 79316715, 571843, 80290790, 59521625, 55823398, 93029565, 35962519, 65249943,
   95141993, 57781519, 30454491, 1999290, 58648203, 98780168, 26716483, 66212194, 84436542, 16214384, 62559714, 57961358,
   559150, 51354069, 31393145, 9794296, 24729464, 1777598, 27057710, 77807147, 89699459, 37237998, 80872707, 12545619,
   88918941, 11332429, 61832358, 45036083, 40198810, 49679307, 48939278, 96657024, 64579371, 52453908, 82296426, 68060915,
   40478403, 34097458, 78542049, 67444021, 50266687, 37530877, 25614334, 74801159, 66197636, 19485485, 14747683, 41451569,
   58031511, 36991091, 36891217, 64198578, 57485750, 39227468, 96985163, 16470308, 88302215, 15128873, 4768716, 73420833,
   16319397, 34088163, 7156069, 54227536, 15872238, 2958291, 70545217, 49253727, 55028132, 32719119, 77789539, 57777199,
   48835678, 96887406, 94580907, 69553781, 47345546, 36007853, 93847718, 5037466, 33104081, 61947739, 84284826, 92411585,
   5763250, 53631322, 88006457, 25110130, 2007054, 78163081, 5323877, 73087207, 34624656, 67963491, 95787505, 62374527,
   96627641, 83596749, 7790921, 89308739, 65023770, 65510758, 45725970, 65534609, 26022789, 54210510, 5844621, 32194475,
   60642343, 45414556, 23030115, 1282603, 573540, 34196175, 856520, 88538841, 36082436, 62658420, 67062425, 94704765,
   32282142, 8443714, 41340039, 79123687, 58856989, 38360083, 46404603, 24952337, 63192138, 94976975, 40230032, 80999548,
   47466347, 9446082, 30954559, 52365030, 19585216, 69907564, 48701609, 23416732, 16234215, 2175984, 37719003, 69810110,
   80777906, 55194485, 53092554, 32174014, 4761288, 71132418, 81913953, 58189105, 7386462, 162424, 93372294, 92558381,
   96364964, 60294394, 283230, 59561543, 56722378, 83950897, 51538115, 19109079, 76961861, 76915255, 74931077, 37366443,
   18418499, 17023920, 14176591, 56563407, 64089899, 14955290, 98439241, 6538242, 47593941, 89852322, 21246362, 34760269,
   43253350, 20133793, 40774973, 10734303, 31623743, 48109058, 28878667, 50333995, 85199085, 37395248, 26678129, 19918172,
   3058850, 92871180, 93503634, 78959557, 40420811, 3505793, 36485698, 46117423, 12381659, 55536860, 46141800, 93982028,
   65685022, 96985205, 32218356, 89484016, 39596787, 49548967, 45190274, 26284814, 11487900, 51095220, 37281628, 79713705,
   50637566, 66678376, 77846242, 65052431, 47547824, 96793046, 6631790, 75747181, 35142291, 95060059, 17011417, 88480233,
   59055962, 74813327, 22733213, 22268472, 27517924, 65863339, 67274432, 75872346, 71025901, 26471094, 98115337, 41537645,
   45006050, 92485452, 7136113, 84099103, 17781746, 64456325, 9335944, 15825963, 18028903, 37232182, 92374563, 52281755,
   79051480, 35441526, 3082979, 91855515, 36782496, 93211181, 65821945, 87846275, 65647431, 2966348, 92716400, 19137222,
   92642728, 8579997, 18359678, 30781660, 23929098, 70219031, 22294369, 21562632, 15726988, 35962881, 60086997, 76032826,
   56577104, 94898638, 76655020, 47653171, 58343641, 78001256, 52626157, 93255464, 7351904, 4867470, 59924004, 27738865,
   80911882, 31612594, 61610075, 50000428, 68924310, 39402018, 14344440, 53706145, 54855868, 44656938, 99954473, 79498489,
   92038003, 95505063, 50336809, 75380358, 52549632, 76330775, 56363820, 30668328, 28367268, 4432207, 88485402, 55283858,
   37445669, 20265831, 1404142, 75655727, 19763919, 85471718, 81072636, 1080549, 20847401, 79364937, 57574722, 83373735,
   14248465, 52553655, 13302124, 81761895, 14621480, 79131362, 49267404, 97361571, 69317171, 1609895, 75558165, 22286110,
   73636003, 37433381, 79537507, 39729561, 27217932, 88223385, 87513884, 34062675, 74009264, 9621198, 41818017, 37713135,
   55378546, 38958223, 81147175, 60814019, 401026, 64482513, 49860830, 4620823, 2670021, 18985983, 99035235, 17210617,
   90219159, 77476856, 25138436, 85902647, 68443836, 74704082, 13768772, 31628502, 87516541, 54241579, 35811909, 55039010,
   54935298, 54458033, 29384860, 12375129, 49751343, 19114248, 24632326, 59329223, 87505891, 64482777, 68440929, 56109837,
   57036170, 78129772, 17817977, 99811948, 78471263, 86730136, 91725257, 71221170, 18758981, 42693906, 78465826, 70047288,
   54631574, 69783781, 36124032, 34089138, 45717829, 39303621, 59813666, 13465787, 47064444, 66321361, 31036030, 18031244,
   47141935, 36949940, 49951639, 41478082, 26448521, 86198327, 75240716, 61418376, 17375005, 70717494, 54278443, 91264415,
   88187168, 28870794, 83151136, 88633161, 65935690, 52914164, 60625632, 48407263, 5911856, 27321968, 43254844, 20411253,
   220448, 77543951, 52001321, 73261548, 87892201, 39025429, 58756259, 18158242, 37171429, 2314844, 81688733, 98897603,
   91834250, 53289980, 28314327, 32457373, 11184586, 6537319, 36808228, 84043492, 4394095, 22742178, 71815547, 62433854,
   78854406, 50576223, 86104359, 49597246, 91986802, 68456372, 77716824, 51585475, 49827119, 75721121, 26307684, 38549875,
   64369559, 34288804, 34752702, 62001649, 36161073, 49698750, 16527484, 38912918, 33076363, 32331688, 75087164, 42172702,
   8541753, 79066663, 31488809, 64266697, 94374944, 44986150, 21733532, 54149926, 65386005, 32172144, 49078349, 43029185,
   4370928, 52828747, 79777102, 69565776, 87346048, 89339847, 86028698, 44442455, 92038561, 48545948, 22363512, 68654633,
   69784561, 88885201, 53218423, 9960028, 99114282, 4620543, 30177346, 38270990, 38276728, 39355379, 68580076, 42109436,
   10826520, 60107445, 90637288, 97743164, 69883588, 934943, 13936806, 77274931, 27019130, 13541717, 5164690, 66834997,
   72855119, 81645117, 92190875, 54827455, 89853749, 46342066, 66630487, 14842463, 49314513, 60054451, 96532286, 59278219,
   42853431, 94634778, 233174, 37870124, 12784892, 80296168, 37438144, 68067275, 42752643, 73865508, 34034641, 82070253,
   99743494, 60655354, 71725280, 17818657, 43134113, 98040348, 38969508, 33800872, 93689097, 74339279, 18867431, 38688806,
   2513975, 32783587, 22032080, 78870618, 90169256, 92769052, 87313339, 83681024, 19500328, 97081196, 29735798, 55771951,
   87824706, 65365843, 25496503, 18385389, 69598974, 83210830, 22919511, 36919482, 17498437, 97164781, 23042550, 93486919,
   87342184, 45033475, 84222111, 97725460, 3848409, 65896696, 73133165, 82653878, 14672722, 89060035, 28813647, 8036142,
   34408931, 39438574, 21893826, 82017218, 49279250, 9124428, 54766168, 2884163, 21869199, 76911612, 53397205, 48244133,
   45355804, 66645704, 84490047, 71991421, 81490968, 77030636, 71774429, 11668402, 80985594, 57993260, 70220547, 24982336,
   89693143, 77414646, 94029370, 85291862, 57606553, 56126635, 64039187, 62450805, 61409610, 40982639, 15097917, 7948736,
   47004425, 8102721, 23181375, 25499558, 6134670, 35234418, 80208546, 40578166, 67541316, 91804203, 92444455, 31588008,
   42888095, 82126777, 52130061, 30798161, 17883611, 81973102, 62613198, 87661428, 40446359, 84631649, 2273912, 88335010,
   6316010, 8180955, 56432269, 77027879, 90115832, 92167575, 45382542, 6802852, 34943384, 97885747, 44186324, 86266680,
   9263385, 31388876, 33771236, 96291625, 80122405, 65387162, 81951641, 49501475, 67130369, 44218582, 36529838, 23442559,
   35648620, 44760795, 5586674, 47900977, 97926947, 82541813, 24839228, 27248337, 40578286, 11938380, 64987114, 62221658,
   79527388, 96258324, 4832108, 369331, 23797410, 95734306, 45266085, 88676398, 41789452, 78175114, 22542244, 6170462,
   35081020, 35035572, 95615548, 36870383, 31565649, 99929765, 6937941, 20789961, 18331552, 83504373, 43749326, 46894951,
   88037726, 14510142, 36188015, 73608307, 60114618, 18576615, 65195898, 88360728, 64032483, 63420972, 85541686, 63252186,
   80899688, 38197819, 92430462, 13656179, 9194659, 18073638, 47579844, 36254965, 94809993, 67709934, 35791063, 90594526,
   44239200, 48493178, 17088335, 28389780, 36066680, 75615385, 9632532, 53208212, 34826722, 52957852, 65623113, 89070728,
   6637262, 38920785, 15044387, 68888408, 30467651, 73722692, 6442963, 66485822, 29120685, 83635443, 28745647, 31969404,
   22825546, 76092596, 60847381, 31170778, 51415084, 37213261, 1590286, 20660345, 71714245, 84452163, 67713313, 35409732,
   16374613, 20963179, 54348282, 91295604, 50783931, 43939291, 11826153, 63542229, 51060423, 90964636, 20381905, 62272927,
   37660707, 90066927, 57914181, 72028211, 7372522, 11519378, 196605, 38160219, 88088433, 70283986, 468158, 9675660,
   91139288, 64002239, 35276617, 7612376, 46730575, 67069176, 10112402, 76775612, 53112496, 62251669, 74786398, 61824863,
   57248656, 12369404, 36178012, 54924280, 25528853, 46110260, 22334391, 37064777, 30558262, 41947461, 39912912, 65026263,
   33548806, 72242873, 89886104, 25394557, 93992774, 70706867, 56806692, 44561344, 95458317, 12061052, 8268503, 16275682,
   69806382, 75540258, 44232508, 59773638, 4693509, 49478279, 94364063, 21358836, 45642167, 17022180, 44625519, 23129388,
   83607278, 58141481, 30340918, 60723440, 49806461, 23094092, 57933270, 89307461, 40321545, 35371421, 72684742, 1602191,
   97387989, 47095225, 27100651, 63152058, 20998316, 3270079, 59057555, 94402996, 28255681, 99618795, 27545772, 83308591,
   23195373, 34764961, 27040723, 28942618, 58736073, 33098197, 2234264, 39337172, 38279283, 9086771, 42749697, 30431846,
   86061951, 31978924, 27069459, 81245368, 39117236, 96194136, 49811153, 66181702, 81857872, 49208618, 39064254, 37029881,
   12720449, 5200806, 60810570, 21632555, 58771127, 52968381, 95429900, 97000506, 42205121, 10440379, 51988534, 58194661,
   57769724, 28070798, 66712198, 15643638, 19111724, 72783418, 83019442, 45414131, 89239035, 29656177, 30779944, 68570929,
   77176222, 45650584, 81994668, 94323820, 28000167, 75482627, 40906662, 27549146, 62629058, 73260142, 28094750, 65750110,
   16567874, 65673655, 67096457, 90187578, 82943438, 31655362, 85511677, 59447072, 42649537, 55678838, 33527292, 65841127,
   70096923, 12193092, 89677371, 78162502, 14745502, 58282027, 66153383, 66725399, 11779046, 40378300, 17935786, 64216455,
   89385166, 38188048, 15173919, 20811153, 43090429, 1355357, 66738312, 16081732, 882458, 43164581, 90364134, 34054721,
   53231167, 37320464, 84018700, 29440357, 65646430, 28777736, 26114130, 50402727, 22877131, 90371438, 13680723, 48821949,
   27666063, 95897703, 18524576, 82276791, 41370628, 22146541, 25763145, 27998946, 31173926, 60378700, 41640119, 82856698,
   69609003, 11852524, 37939107, 33304201, 54773576, 65102651, 67898959, 74829028, 21410537, 42035715, 83541417, 19566949,
   36096105, 95280525, 32648206, 23606599, 80395562, 20062755, 70774883, 11040363, 27283143, 56473565, 17575048, 15327614,
   27172172, 53951708, 48956605, 9855368, 2824996, 35964338, 7694213, 95999604, 56156057, 31385849, 86572487, 60384774,
   11641891, 52718668, 86752983, 13194673, 98266108, 45175194, 38484507, 49565020, 61213008, 91473620, 34888098, 2535476,
   59350191, 28027502, 71866768, 81417378, 96594208, 30298036, 48332248, 52712983, 19966402, 56278650, 25261126, 42788221,
   66708898, 71745620, 67263324, 77466179, 62511504, 94107810, 87255966, 65346876, 80060847, 4148893, 23597266, 17890608,
   1105705, 68906119, 68192470, 85858290, 7859375, 26607535, 37769248, 49214860, 57201896, 95991296, 65271382, 25538259,
   27040127, 14565808, 68334319, 17470739, 43775354, 16550091, 23751409, 19085482, 98963943, 55802000, 85181356, 17135331,
   95420212, 48732142, 70447284, 32241423, 46759240, 28611592, 40348723, 24795560, 11283776, 94593078, 24456253, 85176191,
   70312340, 10693847, 38949763, 60554153, 57953185, 34665606, 76148842, 47429663, 62345075, 56437964, 15150351, 72741746,
   21525253, 69091625, 19889257, 4802956, 82768444, 1026596, 9617348, 68159663, 72579227, 16883328, 20274483, 26446193,
   71297348, 5563657, 70499166, 27699661, 47936372, 75932442, 63244614, 14344127, 97456365, 42897682, 11490212, 71101391,
   68863812, 55942232, 72704114, 20339156, 66064657, 85965555, 87556873, 85656760, 61118852, 66019477, 18769753, 82931440,
   95265535, 710318, 31853508, 70540878, 31117851, 66598744, 69455768, 11182672, 35194069, 45412027, 80383836, 83790815,
   94037088, 17337457, 67599184, 43207870, 89397304, 826277, 84354490, 17040290, 97546836, 76067192, 40331241, 73219958,
   81463562, 16773656, 61500814, 4602278, 81360666, 58173878, 33779569, 83194901, 38984161, 81320789, 16143521, 79686571,
   83494217, 44204825, 2330622, 30020456, 44398077, 19202258, 73071141, 15392368, 27179081, 57386348, 15074983, 58448476,
   51965081, 68235036, 52903139, 55885643, 86185420, 41191894, 66397704, 43439619, 97679349, 94871970, 86519509, 51850214,
   31453169, 15474999, 51591513, 30465805, 76041358, 44679225, 97688151, 602105, 75623903, 7520109, 35419244, 18655682,
   24887989, 39776646, 360550, 83372504, 10122667, 47171327, 63508205, 52677972, 16528251, 68634535, 15090833, 68990035,
   28647928, 28702313, 48467833, 41787555, 89628817, 59674601, 49290888, 81541583, 69411492, 31010879, 88186557, 61709961,
   11086427, 41108136, 24785537, 41643379, 1340624, 83997777, 13160430, 94272017, 52164973, 10307611, 13973222, 8586458,
   60031375, 27078727, 6262202, 54932871, 7385597, 78196766, 40476814, 86427982, 4897048, 32775763, 75016587, 87428632,
   35563434, 95278464, 6666711, 88741856, 18650413, 59560410, 72684222, 52882547, 21394524, 52335355, 91849174, 46909667,
   19292289, 62416332, 57085395, 9383500, 27982879, 25417289, 98892685, 83652465, 45740266, 28896216, 2128625, 36942126,
   13637788, 35486284, 93768887, 69676528, 4424805, 35215837, 64460295, 93903802, 2483581, 38000200, 29008873, 81447270,
   54613872, 59649673, 32140680, 37011193, 97357655, 82112082, 22280699, 12096650, 68855593, 66774272, 36517415, 36910894,
   43886795, 18270165, 22476206, 31593566, 29189838, 47285898, 50396581, 16498187, 53578096, 20295964, 60142144, 10721247,
   72223487, 22781502, 9493356, 76830297, 25234941, 87355250, 44751610, 88534905, 44156500, 496750, 74042154, 76285174,
   40613454, 40520714, 96988624, 29543898, 56064305, 91229060, 28158420, 25545727, 96077919, 83536297, 65850853, 98656583,
   77358248, 32614786, 7446611, 75043612, 63796522, 2125391, 42991377, 45837901, 46820335, 47033093, 12336057, 54581555,
   57609639, 70120684, 71600104, 37243881, 30614167, 87823949, 79237450, 53495353, 46713387, 95275958, 45337908, 96463627,
   83892284, 98353398, 98739311, 56292561, 3448192, 30560257, 99113523, 11338114, 12615334, 76988156, 6471216, 59243803,
   73123007, 99597319, 65227713, 32811184, 11457543, 82315599, 97002832, 98765820, 19113697, 29018678, 96579623, 94864725,
   74414985, 41120346, 15055499, 63811936, 82605048, 49099361, 90621904, 70852365, 11251745, 76802286, 3274878, 96792967,
   89235816, 19319686, 34233793, 4849908, 96085852, 15927027, 32645242, 97858350, 55257200, 42833546, 9953615, 770317,
   3026767, 77563561, 13538158, 71095112, 71833562, 95844386, 88799786, 27337861, 5675868, 74979557, 1032297, 49026157,
   81349536, 89237867, 80930239, 63882385, 95973388, 15981498, 56527251, 91077519, 54954200, 22857079, 40715976, 38774498,
   6980082, 28698988, 6165579, 28943878, 93734587, 22702913, 93577478, 83750993, 68973570, 68894498, 44073590, 31142852,
   65044700, 58623459, 98495599, 36388752, 72087157, 819275, 24050446, 83220131, 55364988, 93732826, 61279132, 50836698,
   69205186, 48791219, 40846044, 78743813, 5389495, 28289207, 95698670, 20189724, 87273754, 38334294, 72887483, 19683254,
   80429570, 38101271, 54929613, 84115734, 59854841, 85730694, 7022061, 18335844, 76283587, 91040521, 8257309, 76910796,
   7696069, 62618394, 91022163, 87686401, 10040779, 90434674, 26773265, 97956525, 98381625, 98124564, 70822082, 67480159,
   66341914, 51421126, 86496797, 65602843, 73890572, 31617267, 85693649, 44865656, 55216564, 88021202, 60462677, 58948719,
   23564727, 69475135, 8676784, 92534450, 11678908, 64406312, 28032440, 90970848, 44125980, 39933663, 60229572, 95322913,
   43737978, 67421428, 70122, 49791410, 47466400, 42309399, 46630273, 62309581, 54792742, 50782346, 44497016, 99133800,
   53321017, 37584583, 99417597, 70108450, 40993501, 10068128, 78401895, 46591567, 69173515, 72843143, 42587817, 10600094,
   72981980, 44072673, 29519460, 46508807, 79918875, 66232589, 46484022, 13994700, 11120558, 7518515, 98752745, 12543235,
   37948067, 3014688, 1409170, 1665268, 57866726, 66009362, 41682623, 46945716, 61387959, 4882837, 5007997, 80138322,
   78105534, 89666021, 71445018, 32183553, 35699291, 40880514, 3279956, 9596933, 40355268, 63729862, 78154366, 11662357,
   37899648, 70978043, 50847329, 29198260, 10916517, 42389705, 37463952, 81626021, 67963909, 84244847, 34861466, 48119096,
   92943778, 36644171, 98726431, 90464515, 18578179, 50430023, 24061734, 26966088, 50403863, 90468378, 47930665, 74796789,
   91625440, 60851458, 69366531, 62126948, 67735240, 34330225, 6039649, 56092010, 26417471, 41243495, 33273736, 33048147,
   50108316, 86065287, 17054639, 11551334, 13328905, 21980686, 78189299, 85939447, 34259063, 58271666, 18596478, 70774428,
   21078490, 36472637, 16128146, 42838722, 75102496, 5552951, 43178525, 41077995, 43519193, 53009933, 17988325, 35466958,
   96045148, 5247322, 42101124, 82836812, 34313406, 63813149, 22361645, 32498652, 14554685, 68992827, 14190705, 64898305,
   17839174, 91229284, 86430120, 24102905, 51271261, 6145095, 83084416, 10876334, 96730432, 38970378, 35926220, 98446693,
   15058477, 65155123, 13781296, 55529888, 75387603, 50266897, 12903705, 26775781, 28330766, 30618605, 23463066, 59151490,
   11600214, 61672766, 95270458, 15798201, 80485213, 69633549, 6049951, 96622097, 93199684, 78032858, 9743802, 27489603,
   75892900, 60819970, 79301387, 96000120, 94995620, 34993519, 47905315, 80172842, 66870754, 10284987, 28510770, 30373223,
   12201409, 94441405, 72224874, 11084216, 73294673, 51725668, 10436996, 64708904, 88978284, 45762586, 98237970, 82304532,
   6775128, 26188971, 65829846, 52622168, 60499456, 99476783, 4248381, 96243807, 95590482, 6519866, 31265265, 61726637,
   52310136, 41382699, 65672818, 22046350, 59275103, 73871960, 83251683, 8575556, 62311961, 19973176, 73166625, 85619832,
   487928, 3458126, 43110149, 33737171, 70095321, 25430709, 13684818, 20873819, 69420554, 17167164, 52406659, 78516794,
   76549204, 75972210, 91581898, 5741815, 79126769, 15987372, 43911470, 27426874, 74102578, 66176969, 10232159, 3680214,
   44556732, 16826798, 3178066, 20572098, 46131988, 94232731, 90606548, 67347765, 7106617, 23703216, 598832, 60337409,
   43044385, 96871244, 18289417, 74079070, 81697641, 80458406, 58174489, 20759429, 97779982, 19053145, 73263193, 52243372,
   82855253, 69817594, 22433166, 41361125, 83831941, 86317807, 75688850, 57433911, 2262337, 62877379, 30823856, 17928666,
   30132717, 27672310, 62194612, 51365212, 23259001, 51290044, 79754032, 35245965, 6612367, 55586946, 64877731, 99380248,
   83202709, 79155770, 12041152, 20187193, 92647925, 72633047, 15549128, 60559003, 92804890, 50157331, 69938281, 72334148,
   23138147, 82150322, 88325518, 19897479, 52839269, 26524317, 12688955, 63200648, 60552612, 75804165, 34320522, 37394145,
   17041674, 14845708, 94461738, 91496385, 45223863, 63150179, 80109001, 98633222, 87201268, 32302519, 63517312, 13905045,
   358503, 63513358, 8814438, 2527563, 71905561, 87822682, 33921979, 709861, 27693653, 15822299, 33607020, 6815582,
   56384311, 44816030, 16222586, 72225532, 56363226, 35875861, 92710259, 52040586, 76686260, 65600117, 17386733, 583683,
   30863055, 70713946, 36586507, 94966699, 58631787, 74946184, 28001798, 54351516, 31370743, 16656119, 61430411, 23752325,
   99246679, 27056690, 91881734, 46200602, 96099750, 80989265, 57343312, 74161668, 51757143, 85763720, 32597148, 60627939,
   64797027, 84755372, 54851773, 93410280, 1402315, 58937449, 92621272, 12852855, 45459478, 97515481, 9294047, 45286542,
   81020263, 55190826, 40562296, 62280057, 33362453, 72022802, 98874795, 79433378, 96289289, 96578181, 21037260, 76738839,
   32562121, 97986764, 81228801, 37448627, 89866837, 6602813, 29598236, 96623641, 57168728, 4435651, 19099621, 59957795,
   3143339, 24453951, 52167219, 90592990, 24069738, 1894950, 87039703, 64527552, 8761356, 16771311, 72191814, 47148347,
   27025841, 63361019, 25668516, 22972707, 6727141, 88627589, 2412218, 30111076, 13556312, 8284204, 66910725, 52532057,
   85157707, 43284295, 86039226, 72122326, 12807751, 49204266, 43012459, 38544844, 37820520, 74846733, 70857208, 31754787,
   56315923, 483429, 52250249, 51892749, 10855248, 44714184, 15248138, 40213874, 55180541, 13012218, 55511839, 21012549,
   64186597, 96702931, 8822158, 69067151, 26379665, 53431005, 30467930, 32417909, 28153920, 84090287, 68589377, 20907404,
   86767689, 76694607, 4197283, 77471888, 216463, 94355898, 24645870, 72689749, 25036018, 21888296, 31845725, 93381807,
   43371428, 73827750, 80380396, 11233540, 29874076, 34615257, 72853815, 82210440, 95253592, 15034520, 82936454, 30689478,
   51201314, 96923638, 34355250, 88259894, 99578514, 96558179, 73925823, 22602736, 19290162, 55930377, 35355582, 28930597,
   39332515, 63478710, 74224458, 20549064, 29261386, 76242776, 56469265, 89452882, 31904919, 20917846, 24238191, 38529532,
   86696095, 11623993, 66146804, 73075656, 46936601, 50962970, 88959570, 56993997, 50208126, 15849650, 11913354, 26465140,
   64162680, 5540725, 62304073, 33644417, 71976177, 67926311, 75455046, 73478179, 68134700, 9715564, 31005816, 6368493,
   84208222, 24548781, 12981613, 51928208, 36871562, 66271301, 4770334, 98627719, 68393120, 14852227, 48041622, 83717148,
   55700553, 95038976, 23627387, 10474141, 88222860, 81170461, 73089660, 64816328, 18126555, 57325308, 43296275, 4457235,
   45775794, 74247431, 9729113, 75787651, 94832308, 20853559, 17294250, 16701319, 96081648, 15021898, 13419890, 30791229,
   52551624, 77757160, 83835548, 20045047, 50619026, 31377808, 60355819, 97793176, 57429433, 45988307, 77273695, 64949506,
   64747066, 15375182, 55904117, 32477238, 33420836, 74692949, 96552905, 94951452, 33693270, 95785045, 3605983, 64910923,
   1582670, 18010026, 62268865, 8220214, 39061014, 27716269, 7495789, 18062302, 17448647, 36078036, 46169374, 61634084,
   38057150, 34622701, 77123010, 15195041, 80964363, 89599319, 99547717, 18308385, 3830133, 64047728, 62321879, 9485651,
   86657225, 9850713, 78146425, 66767296, 68075564, 9413019, 70417160, 17036852, 51074440, 91850842, 28289803, 84589737,
   53354939, 9356158, 64462394, 28143677, 90322696, 33855473, 29159820, 32783692, 17639602, 92690893, 4251826, 20968485,
   93460505, 18074074, 9680832, 65594319, 58830211, 81374488, 49945741, 25443451, 40006826, 3156922, 72922641, 55980140,
   74064934, 54946999, 93176902, 40793734, 93454537, 47234864, 65355357, 80192680, 63295297, 92743438, 40717846, 18502730,
   65438378, 62875947, 95046571, 62984137, 44369190, 85270007, 62143047, 8850712, 46208687, 84421571, 96562114, 58056113,
   53524825, 64675730, 32245926, 93199889, 81860033, 67176338, 12469507, 55611425, 24680145, 22698180, 336252, 99247527,
   67776514, 55625759, 72357779, 77161324, 60129003, 72689610, 87145030, 73860654, 30540878, 35864369, 65948304, 42802830,
   89870450, 48665198, 47557637, 69843916, 66626370, 27350372, 5023030, 59188241, 99252537, 53931833, 52815139, 57023087,
   93520698, 86170582, 98349683, 58903678, 29063677, 64704123, 37749325, 60329550, 52079718, 43704896, 44013575, 24360483,
   39538555, 4150475, 1303598, 65005841, 75455553, 34912087, 29511774, 71721930, 43125237, 4875839, 64323155, 25765580,
   57207550, 89704547, 3176437, 4399915, 5435838, 56268510, 88663190, 68866304, 62336151, 90588456, 63713593, 15390422,
   81795062, 60667655, 28641144, 95987545, 19680015, 29622222, 44394202, 52837606, 47808240, 86059615, 78452911, 88133363,
   18064492, 14264999, 33043795, 11490910, 15602496, 26418281, 94794524, 3566801, 35815120, 67029956, 86082011, 2298494,
   87889452, 47065429, 46837656, 36238117, 84696075, 75709302, 76361677, 79263584, 89375453, 952678, 5342700, 83909409,
   53662332, 39186656, 31292377, 63507249, 80932222, 96150479, 68754151, 53044966, 93002130, 39409787, 69790871, 37037058,
   77294379, 36460727, 69473016, 3578291, 56916877, 77415954, 44640279, 49648974, 28413638, 96422889, 27605023, 88960606,
   74534049, 68290042, 14093511, 7227641, 15692230, 19975433, 83074081, 20909450, 3438476, 50536372, 1540468, 46551920,
   93290797, 15236708, 58579469, 44689681, 14127936, 53468804, 78914156, 49437393, 29984543, 6748979, 62985649, 71258606,
   16570919, 89385980, 17739071, 18270670, 83509425, 10026325, 87343506, 91443354, 23064941, 20418448, 26758853, 61877115,
   70953230, 53692610, 39730460, 96267559, 74366787, 73765491, 66749434, 71059616, 60131504, 24775795, 30579006, 10866667,
   24052173, 27902788, 9485460, 74515333, 62900182, 35734320, 42459012, 56968909, 70692990, 71079841, 60653260, 28102993,
   88335783, 94588170, 10110246, 38757286, 89001159, 80181655, 52081419, 36680546, 41005292, 95211002, 65839698, 45769896,
   35645138, 18718667, 40835841, 69280305, 8340780, 26909564, 13977405, 79862268, 40461109, 9318806, 7159836, 80497447,
   69228303, 8161229, 95967506, 37016275, 4458425, 51295240, 72074225, 89130077, 5674297, 56494131, 83452729, 17032507,
   6400259, 92102912, 18060346, 22358710, 19667503, 91356785, 31814826, 34585517, 68258849, 71962980, 86103843, 90355831,
   85128259, 79800207, 66116658, 4377843, 26838036, 39415117, 68321666, 69473375, 30809337, 11456910, 90482846, 81585928,
   84834658, 777108, 27873496, 9173163, 16437015, 39701721, 90968884, 54521803, 25347073, 60771208, 60940861, 66972789,
   40374766, 3214788, 65548417, 15794552, 5252314, 72208553, 24037715, 2600180, 73379958, 8123339, 76455941, 98169148,
   43959582, 24666842, 20835550, 68240536, 9559776, 33578794, 95025264, 43421034, 72582267, 25003145, 71837061, 19017234,
   47530075, 48653341, 80527583, 22529567, 49479793, 33996784, 97190140, 40358925, 4606810, 86278907, 64212107, 975590,
   50345495, 41227933, 35788374, 70182266, 54112642, 92061381, 7559284, 41991455, 1526574, 35830218, 37108405, 63775469,
   67411632, 42292637, 51221517, 85563435, 2583729, 71317949, 65417939, 40440210, 48293692, 20075306, 76011150, 32191329,
   67317877, 27770835, 25965996, 37829883, 5362953, 34265882, 35207474, 25344760, 77408881, 50437779, 57859687, 37294279,
   71218104, 31896650, 22566240, 58554920, 20048625, 27073714, 17779696, 5977017, 94134354, 11264549, 86825387, 78962706,
   65951640, 61814942, 81937676, 44060596, 22335444, 4349341, 11990410, 5135393, 36726709, 34790721, 85898242, 20456202,
   32047081, 68254157, 32395519, 5817822, 38372041, 27098082, 45146535, 28580196, 96043222, 3240172, 68982110, 14135853,
   37236517, 25134947, 21422558, 68203083, 91676520, 73129007, 55762481, 45320523, 74676095, 50534560, 28934593, 50082405,
   83866237, 66207530, 82385837, 74442043, 249713, 48160031, 89849139, 31973091, 70324513, 29144926, 30432949, 56100207,
   37987734, 63874701, 14552139, 11092830, 57738423, 18554917, 49868458, 61984167, 99084659, 84548658, 24531368, 51567433,
   20872789, 95686172, 75540827, 58567785, 49690890, 9069805, 15097382, 13556195, 21718736, 14222486, 94917696, 92548768,
   66417418, 45927182, 29705361, 77348627, 37602510, 35125377, 79345381, 29798373, 49063999, 46100108, 50865157, 56207978,
   21650913, 51244712, 91176649, 79933468, 75722563, 52507026, 99660831, 61967304, 84423534, 69386309, 68265154, 52031248,
   74971451, 63254865, 65832365, 65007627, 40278557, 4871932, 88678242, 35587407, 3447959, 76210022, 13972538, 22332728,
   81675399, 94740613, 56306100, 77959020, 12058195, 17201053, 19380138, 43469536, 78605863, 98862893, 35165232, 63296601,
   36849986, 30737942, 37587104, 13503671, 68927879, 8531664, 15079585, 700569, 11825252, 20831009, 37658214, 73158070,
   89665283, 89712606, 36512596, 46460988, 98325406, 75724411, 95707516, 97508357, 32951652, 39387246, 57382678, 84524299,
   91466845, 12953046, 71415627, 16422223, 94721034, 19443733, 6684914, 19071585, 44885304, 10147194, 85575577, 49850178,
   61219598, 48798701, 57760383, 66201472, 6113217, 62787745, 27609122, 32250765, 48382305, 82312288, 68197927, 17938040,
   97008754, 94629783, 65920897, 56949844, 24802568, 58213322, 76662732, 61539546, 18698003, 97941932, 88171710, 95327205,
   17106890, 37572303, 18556708, 16265649, 76223457, 18285021, 48997234, 75652084, 87732346, 91584758, 19066476, 53275456,
   4284262, 76549152, 99371435, 46999097, 91697965, 5613561, 96848355, 72359937, 21867172, 22794368, 72283787, 6146184,
   27714850, 69364698, 62476799, 12456629, 47281928, 34676898, 36476791, 60774876, 87105635, 44856528, 93313577, 73606088,
   15169639, 65667629, 56062858, 94533329, 68389835, 33757580, 2130381, 95263216, 78900773, 9439193, 57582842, 76238195,
   49367243, 72126420, 66031321, 93611796, 63391635, 22628905, 77714029, 6022572, 42695642, 99059839, 37161503, 3348743,
   73994464, 31908711, 85044102, 89229470, 46348160, 52013555, 24462403, 8887916, 23096793, 51058139, 95163398, 31310046,
   7757804, 32565989, 8494290, 60615687, 93248805, 98995762, 86217970, 98955937, 38084419, 46450775, 24219998, 21142133,
   43331934, 53118057, 26206014, 33921760, 22547148, 45643120, 32642152, 44564694, 97016703, 73943656, 34709734, 93709854,
   51984290, 87022092, 93218716, 35223497, 21475620, 38864913, 64606295, 84373612, 43174694, 40262054, 46061202, 44797143,
   86676420, 48324311, 75107040, 20210602, 72862105, 41123709, 81002062, 15348621, 3153450, 20636838, 51103304, 36984266,
   69682883, 96140681, 32633740, 80938578, 49290090, 4799449, 29969157, 89900601, 47136052, 11391598, 8557566, 99914932,
   87581232, 293933, 62670769, 87597769, 63876193, 97631382, 82118554, 31320950, 86262378, 64781658, 11235115, 2134977,
   53103478, 48192799, 25664805, 85347570, 50172581, 82378699, 76778046, 83984621, 94516121, 22633509, 84339548, 86114853,
   58536947, 73597884, 75246599, 90243400, 5955307, 43487121, 31949384, 10320570, 70849832, 74681561, 19603637, 67162069,
   5128929, 45928855, 22603632, 48860092, 82433413, 63370156, 97701788, 82817745, 14220985, 27276329, 65678788, 70914513,
   94738069, 17954866, 36196661, 61870700, 98180194, 35011949, 77228991, 68722721, 51013422, 79594852, 63690065, 566746,
   45471464, 10454585, 75054006, 52282793, 21165556, 84883433, 11605311, 52834882, 62576379, 83287306, 33054169, 80790823,
   87801364, 45672276, 19480894, 1974319, 51371890, 72293728, 33217551, 4919758, 62555991, 76031083, 51859567, 45573624,
   50873884, 63283566, 42529363, 73171398, 43354501, 80232971, 58744624, 59327277, 34499978, 10557903, 25726979, 40818267,
   18884242, 75910856, 36494381, 97673320, 29590373, 85928894, 21415558, 23351321, 79119614, 77191462, 39730104, 95737511,
   17541062, 44048657, 15685958, 66855352, 68369850, 5757874, 9467997, 10904953, 19490040, 71722881, 82958898, 34198298,
   66034459, 25925751, 58616877, 41206795, 79152600, 2273163, 67900365, 27080970, 53125457, 64813892, 92320921, 62486243,
   16527196, 12547677, 58009660, 16894695, 28182133, 51970447, 80327454, 23638987, 78703482, 64776656, 34170737, 52405940,
   4165460, 20342646, 40941830, 46047615, 745885, 35811717, 70629382, 60935168, 34161067, 8133238, 54712283, 74928149,
   60246411, 77323603, 59400124, 3609980, 70989343, 66162033, 92466795, 30141392, 69768931, 71787863, 79999166, 22736750,
   13139641, 32794821, 21300968, 39893919, 88874045, 21109940, 96762935, 43244445, 75928791, 77328689, 78673186, 6932951,
   20944542, 19615964, 30441774, 65806984, 7139816, 78015119, 15260123, 97083785, 91011212, 36257076, 63723293, 60030492,
   59575502, 40073031, 68556952, 94988090, 21130258, 84168203, 86177359, 24089065, 23479618, 35035238, 37614200, 81033010,
   11446275, 73522735, 18919688, 13841325, 17635478, 45340614, 80623080, 95958305, 23390651, 76705929, 63032005, 29981700,
   56823576, 84801941, 5963486, 8902333, 64380085, 27392029, 34987641, 92027272, 58104190, 91818511, 7329828, 22777781,
   32858852, 91146909, 24644449, 96625329, 7336462, 87349652, 30555237, 55706059, 4445971, 44282870, 35299743, 45519775,
   28123876, 78209350, 66949866, 61674399, 44292157, 16668649, 98708319, 64397128, 9196504, 38365280, 34073506, 10217132,
   64805793, 81283758, 42813641, 7072044, 69444711, 44083650, 44443826, 42756571, 54696401, 8016397, 70467900, 53892460,
   25319541, 15244949, 40254141, 34043654, 85152180, 47809526, 43057910, 49970926, 83680913, 78815248, 7102741, 16715311,
   71280953, 27537528, 81561042, 22514674, 83823114, 3312804, 73625948, 60649973, 4372153, 95335345, 53287605, 35337462,
   9860151, 60712986, 97097911, 74014746, 31774287, 5294625, 10533852, 45061343, 66545803, 13545377, 47967763, 2047305,
   11519124, 45969277, 17250402, 23059594, 79234005, 42391079, 41274246, 73625337, 2789669, 93069476, 6818314, 94140812,
   47770813, 67734337, 70488669, 2752619, 86572324, 14793869, 7328448, 23815484, 1909652, 10960640, 56179606, 48934255,
   45817218, 72612653, 87284146, 88979598, 98644881, 39646134, 851203, 93064978, 8317187, 6358625, 86998689, 29281239,
   45922645, 18977747, 21764589, 45031908, 78198349, 75271251, 76560090, 26639116, 10521880, 94364777, 33513121, 15146581,
   26198032, 39090192, 69848691, 64490880, 41423226, 12706060, 46066431, 32782353, 91850610, 32658385, 23270811, 36418367,
   67636957, 71995231, 69946776, 85175131, 19206777, 91964743, 93152985, 22483891, 38199297, 8224445, 81002136, 79575505,
   59236129, 14261659, 64718014, 83193386, 28758030, 93484878, 22409657, 48668867, 17603780, 24160987, 42096152, 37643837,
   55165840, 98814471, 8149109, 26405195, 28063911, 2229028, 45624475, 62674221, 90371612, 48819670, 8140712, 23859538,
   86429231, 25637325, 68421836, 9749168, 63507270, 24573156, 35828554, 6175654, 52108055, 22479009, 39532039, 68841325,
   44069535, 25084383, 30514254, 29727752, 8417458, 66796190, 60485453, 81955107, 33949111, 21320877, 99396192, 54425032,
   61242042, 62647501, 57096190, 49720986, 12009750, 65687365, 46733598, 51260580, 52892896, 15725296, 21383557, 46723009,
   26471118, 83473758, 6291640, 8686404, 65560995, 21842628, 8598152, 50083113, 83578792, 82971937, 83341681, 84152032,
   9098557, 26401826, 43350841, 67126635, 64340319, 37460850, 60625030, 43668944, 98301569, 65025799, 5575583, 56279304,
   3613371, 5595471, 32415578, 46070863, 70081200, 61981091, 58838951, 55844241, 96796299, 55065985, 44573184, 49046551,
   93573370, 88513864, 11764374, 15085139, 26848967, 56741270, 94009116, 32806895, 68796179, 52959184, 68519958, 95600728,
   44597491, 7994950, 24182125, 42495286, 79190766, 35428588, 99313962, 14444419, 75241109, 22004614, 81780311, 74250875,
   27802283, 87321394, 77750400, 79330432, 4606131, 66649786, 54916550, 86805810, 70638837, 82522832, 4447845, 22294618,
   14409112, 36417590, 96458992, 36933277, 27418399, 12610635, 38088285, 62314906, 25979364, 37728681, 14165810, 59150913,
   32510953, 51777588, 2875383, 29725226, 18830129, 26489358, 85596325, 65195210, 19339721, 56701007, 8381754, 1411816,
   20117243, 33320103, 23854858, 58435524, 8827168, 96183836, 87802034, 82388114, 65068949, 41615555, 35434044, 46325299,
   86578962, 84954501, 14372673, 5033142, 56072437, 56124972, 85209043, 61401821, 13174241, 43823589, 65143106, 47588170,
   46078973, 77789450, 90605203, 4250882, 72175738, 58568435, 31812334, 14312289, 25345820, 29917719, 23943124, 82417626,
   41113703, 20807210, 11072494, 58595188, 80676163, 16989508, 15228746, 28130448, 53728861, 26537668, 63506377, 73303485,
   57041222, 34688671, 98832020, 46221084, 97814723, 69082061, 78220484, 15989372, 68700902, 75058224, 19024183, 93750877,
   6236279, 85607734, 84294712, 14555613, 12068174, 82410485, 17266935, 38134425, 46723887, 93734803, 54787112, 88630175,
   94385401, 96435327, 43482407, 12234971, 60793212, 19404298, 32291814, 35712226, 948453, 53589307, 98748291, 16260438,
   18528010, 37509472, 99311803, 24930501, 27899965, 64535200, 23834305, 15608798, 67376559, 24219625, 53005486, 20258372,
   46806617, 37653256, 50690249, 60503772, 76330213, 92182089, 3185029, 34817693, 67212817, 30848894, 12266136, 33290792,
   56218367, 49408420, 4709899, 59342580, 24276139, 4189921, 82980149, 28275034, 54117997, 96914254, 28865172, 85386060,
   94248085, 47630265, 2127439, 34342954, 64407620, 43440307, 2654758, 77972492, 21852329, 66546321, 15790847, 95072160,
   90993601, 96313845, 9426462, 41307936, 87651720, 52432701, 89164910, 58817336, 31897740, 14465141, 97477244, 52903639,
   35694636, 91632778, 392123, 9167050, 84861750, 52410729, 80647033, 69497660, 90174003, 41067142, 78870276, 62443641,
   74637451, 53495183, 27197007, 35050238, 12181967, 5789857, 68566821, 67023874, 81043338, 41130292, 6790583, 22966853,
   98346763, 9887134, 77037215, 82822172, 78645521, 52038091, 20411077, 42795447, 91846360, 70406627, 23891265, 5767148,
   66026852, 7943264, 46847859, 16007086, 72021080, 65867683, 63286096, 67086573, 73883173, 28785186, 43394833, 96813172,
   4836985, 11552380, 1919943, 75405770, 57892036, 52657186, 90680432, 99144360, 94689551, 86574215, 39100638, 19859383,
   28696836, 69063514, 44116671, 91187528, 76432481, 25572459, 18764785, 46181427, 70414153, 73372854, 76338268, 69197340,
   75947081, 41591737, 69516833, 73318898, 79753073, 34863232, 69856595, 63776448, 51019953, 80329614, 66274595, 45711525,
   85183568, 57435350, 92909487, 77820823, 18837593, 59065071, 64144719, 76857303, 72603671, 70241991, 89522317, 3567549,
   2723410, 78471356, 90622199, 21642374, 82295153, 48919820, 69988060, 92641460, 63105706, 32970264, 37972953, 92686270,
   35572314, 25750212, 9685157, 48541999, 49060903, 55250274, 55180740, 74770867, 99843664, 82499565, 20065282, 92837925,
   4451367, 37234955, 48968975, 69563782, 91523007, 60136246, 88335473, 1572463, 88460438, 53977908, 31245456, 60753188,
   99343679, 37931683, 93785520, 27494261, 33455291, 91168628, 57842307, 6841834, 67399476, 11826509, 28742392, 82641183,
   36298625, 86579719, 70774282, 62367746, 74187969, 43995650, 33528307, 7088566, 13505647, 65574597, 50347276, 74579092,
   3550864, 77775244, 68350558, 36488826, 35473440, 21755738, 29639902, 8522876, 16106071, 24559798, 61893055, 76809372,
   36817999, 38876817, 54578125, 36972806, 97989871, 19551444, 23314662, 92416653, 45022204, 20860382, 62643391, 26019269,
   32530800, 37753971, 22214255, 38377305, 94018602, 45065656, 54668464, 35364970, 56526352, 46142116, 91976351, 37038986,
   20072222, 48892497, 15114993, 70710959, 65144043, 68066762, 10716336, 68815806, 3970248, 64099687, 70779584, 90558917,
   67030756, 6072894, 56463779, 28516784, 65293502, 43347725, 8311403, 38660233, 36592811, 9036805, 7194444, 5019831,
   28967942, 17469632, 14277617, 50237740, 86319654, 63325258, 217405, 48835072, 14831825, 74163777, 98913889, 51595831,
   24032978, 69560355, 17624292, 33573264, 43786790, 74721105, 83697517, 23682889, 58249391, 94697593, 68009794, 20606684,
   45250618, 55350746, 59936561, 75785210, 21237010, 38264342, 17528397, 72439118, 77771085, 81898844, 59412695, 61932822,
   2985612, 39566092, 86924602, 7744856, 40956986, 64075862, 89007355, 58528535, 95643857, 10315230, 49451870, 12543584,
   54498679, 20781742, 35170305, 71459331, 25239893, 65319113, 5153221, 175727, 98235626, 75713419, 66446089, 31575429,
   99870213, 19941901, 95611532, 28351930, 45586052, 28748289, 78438632, 94554059, 8422872, 48646541, 66340872, 40047719,
   27109955, 25191232, 63769042, 16826572, 50016277, 95433354, 98028020, 18851440, 80534014, 58625237, 95451661, 36188052,
   457367, 98429866, 43457401, 50005092, 11315485, 59951804, 74329148, 58568724, 81628304, 48649228, 95319520, 68532294,
   8533710, 76907343, 59075155, 38034931, 56747616, 52961923, 49598439, 84244981, 27548151, 29925916, 76947087, 56121442,
   38337947, 98699002, 33580886, 31044644, 9075584, 68263449, 97460815, 6208470, 94197596, 50675848, 64767736, 57646717,
   65160097, 92645003, 32529386, 10317210, 49653890, 45364254, 30630728, 75625956, 66093590, 7512664, 14589126, 31630392,
   88325193, 27535683, 34592430, 68461612, 573871, 2293707, 7628452, 13824747, 9406465, 75392887, 79747798, 19314112,
   39005494, 89780512, 15190446, 47033731, 30572523, 53275679, 76472378, 11088039, 92163696, 52537620, 21573410, 69271180,
   1423758, 33593712, 20036732, 18934681, 95966732, 41379074, 75867552, 28042649, 3674058, 19288119, 23827158, 48335364,
   62407785, 44036934, 88220111, 77221183, 89333442, 87717508, 47037275, 55243694, 38055978, 73528126, 76132977, 23290833,
   44986746, 37010414, 98198024, 80246230, 72483160, 28027727, 87158490, 98359697, 83748923, 73685018, 10991996, 75985749,
   13674460, 39059603, 42479829, 96368320, 62138689, 38601801, 31514249, 49115307, 39465631, 63106434, 28186, 22972996,
   6750765, 24818823, 52471075, 60364742, 45113536, 20919777, 33534682, 45868032, 71189290, 98297906, 62999610, 91678134,
   22128073, 36418187, 86012803, 72326376, 70927901, 57707721, 45067283, 5051035, 49293770, 8006504, 92258497, 39853528,
   42337966, 2861670, 2207533, 29706843, 29008540, 91236366, 84450124, 27751132, 82562823, 36796612, 22770957, 14097902,
   2769166, 5595164, 53466055, 11135062, 76965753, 74341800, 2624629, 63166790, 1757742, 29361421, 50023035, 86160504,
   68124184, 42916860, 23980315, 16830180, 28706623, 51188949, 48772152, 69258444, 16927050, 51969848, 77288709, 33985803,
   96394816, 39182982, 87753965, 96668579, 48686471, 70383744, 14161570, 63859430, 63511591, 68752362, 46701649, 68062347,
   12094044, 28044790, 82705487, 59599596, 43922413, 96440616, 64641386, 65430744, 68006475, 2603364, 78459204, 96552174,
   67438140, 83905572, 92256311, 84473467, 57078129, 84212711, 23992940, 36164696, 50448618, 30493178, 58219231, 76085247,
   87966114, 45125505, 38365731, 59796566, 26693257, 33709516, 67185691, 90939313, 22941415, 76405167, 50810572, 82006881,
   79110036, 79121252, 87372742, 22641747, 80528661, 95375046, 43347139, 68287500, 69582496, 68774340, 52608924, 29433862,
   5411877, 68364865, 14866034, 50538789, 11261503, 79110045, 98494604, 47239142, 64129499, 7463887, 32605425, 31981698,
   49692299, 19408906, 29857685, 40289694, 68933396, 28716636, 44995, 39440491, 2255590, 21883389, 23635658, 12715499,
   4917641, 81956294, 2557629, 93498319, 58080563, 27181301, 81130311, 45871475, 77252044, 89058262, 34463965, 85752597,
   37915104, 53232068, 15742773, 85380897, 37306861, 97147691, 40738117, 95802853, 75661309, 3346154, 19684448, 68611909,
   85419273, 85012676, 6546205, 5706114, 20002542, 59738350, 86617491, 50928636, 57477747, 65807173, 23084172, 27616121,
   99536271, 82526449, 14000919, 23642031, 25127677, 22585695, 95467112, 77042629, 5633783, 98011271, 30776903, 91552547,
   8350946, 48687392, 25898696, 74014773, 80530974, 54876943, 77106563, 21927947, 80215535, 13662115, 88372390, 74461198,
   50344779, 95951239, 93414327, 17914679, 64269543, 52548917, 24786316, 17858158, 42853712, 70638248, 96563196, 15087567,
   87719394, 54501418, 16512967, 86717078, 59216024, 55075962, 59111923, 26383731, 17333728, 36750400, 65391162, 46369604,
   10383017, 87689912, 43777997, 1425712, 83432305, 84157109, 99719547, 34554396, 79315023, 97481860, 32610094, 53140528,
   27084473, 31085258, 36064446, 99097408, 52010638, 48849205, 86597228, 90749858, 43007570, 47040501, 56719222, 55649425,
   81801145, 67509189, 75297149, 95504337, 35442577, 86758843, 63471907, 19128786, 19625082, 4572085, 83799088, 84932571,
   34599386, 19685084, 93335709, 63982558, 96528793, 36122123, 20291610, 26231020, 12053410, 56975239, 57522104, 34148959,
   93475100, 43657329, 57750245, 71503446, 75557281, 29519141, 49084182, 70908002, 55757406, 71999886, 31187602, 84394290,
   97934526, 31831398, 36647977, 89553820, 48829483, 31345798, 76511770, 69571721, 39783105, 118458, 15764139, 97796857,
   14582532, 84607060, 3177393, 62172157, 67731138, 21811865, 49281928, 91360464, 64237159, 92895535, 81088193, 66944334,
   10459117, 25298430, 45560508, 82756332, 84384878, 69530125, 24692566, 23149249, 91509382, 80755291, 53707175, 50931098,
   682798, 163500, 23482297, 15935837, 6089686, 31729199, 81405874, 44165899, 62692099, 36509248, 65616556, 26248182,
   557185, 28878233, 98445207, 20943102, 50701222, 2607402, 90142197, 20002922, 31204384, 15891299, 12564724, 89143271,
   83699293, 17121071, 73078688, 52002904, 29661812, 8749073, 77622581, 60934175, 31605335, 48876651, 8848842, 36391716,
   81820668, 63740018, 32325629, 16032440, 33881557, 672858, 36886703, 20885369, 57316115, 64203011, 4323684, 77805615,
   18303880, 64156303, 4723029, 43984081, 91076368, 37653981, 1447622, 56258846, 30139504, 18735952, 67984070, 71734147,
   27996194, 27529519, 41780181, 56412007, 35788455, 32810893, 89499956, 45536845, 18825292, 435407, 14630188, 13095754,
   13334751, 2057548, 38095318, 70742536, 31599683, 51411997, 78610477, 8493065, 58984189, 77275333, 66504708, 60089792,
   77550901, 9608768, 57027937, 28915830, 47100413, 75863731, 40501629, 47065127, 33292601, 22922155, 18211120, 48656017,
   27985759, 10915403, 72929819, 35045146, 68717407, 79110697, 30421284, 84636397, 86059400, 27744663, 13407310, 337651,
   78380107, 88071090, 32830799, 77402463, 24022817, 80722847, 32713580, 21125439, 98651808, 8391994, 17548792, 20277443,
   81234896, 77434933, 24112047, 21319294, 70661894, 47079648, 12364751, 2314482, 80103047, 14736684, 64297134, 22058708,
   70696997, 88824042, 81299471, 15231337, 92605699, 61408753, 38005126, 22235245, 18441379, 32829527, 9686748, 18082468,
   46614253, 87294640, 30895309, 23074047, 40228399, 56402472, 47119771, 44119550, 8605391, 34897873, 42386984, 31330147,
   49807531, 65980827, 85455268, 22845722, 69948449, 64071480, 70894092, 32557003, 50473356, 71468568, 15442582, 98025365,
   71786112, 9358130, 54096899, 89418219, 99763283, 24202949, 9271986, 46822146, 27785089, 56229167, 76406502, 74793035,
   38437238, 32722403, 79297908, 28032931, 7604245, 80825932, 42167689, 60844866, 93326279, 19687499, 14407331, 51215409,
   6782115, 66925717, 84367532, 79125960, 75686836, 27052618, 18980311, 54435756, 46281248, 63233740, 30344030, 65294387,
   12504682, 6151732, 52893798, 29702186, 8456506, 78046030, 23522884, 62655032, 17417831, 99566183, 74953438, 67847939,
   95409636, 47124032, 42925764, 49171626, 17061929, 30705857, 75933728, 19213195, 13612270, 89677080, 56335436, 28629363,
   40792472, 33234832, 1638058, 18787679, 37513365, 51803932, 25838501, 33984138, 2935739, 12993558, 65941348, 95756398,
   28459364, 18846586, 64404397, 94346221, 63116232, 78530732, 24244337, 95809836, 12549670, 72413518, 18144818, 32929895,
   23514523, 41727860, 20114639, 40133304, 62729446, 52398341, 57253046, 83802593, 26585764, 93583675, 16611347, 74515566,
   36243185, 64377233, 30429507, 42931024, 61573417, 84777879, 82412335, 85885680, 63498407, 69293868, 20169606, 47330149,
   6990048, 58281216, 9967203, 37070228, 46835336, 48524720, 31959981, 83444657, 15386319, 65155238, 81434113, 99184617,
   49539629, 16943810, 23409875, 62047596, 57266047, 1350805, 21061279, 62546318, 63176239, 7119375, 77829267, 56258635,
   62987466, 1777396, 82386337, 83250001, 53513630, 74629728, 82045127, 67691088, 82063666, 8877791, 90895044, 41363700,
   26367258, 70204553, 69867710, 60955820, 21405711, 69154613, 30630372, 1838055, 28716805, 12887186, 11486364, 26940763,
   57552156, 27660600, 21857623, 30662111, 84575623, 21432380, 73824714, 17555086, 54318043, 82566250, 83497254, 11996717,
   34793933, 32158702, 15857475, 37940564, 94179321, 18888036, 70136505, 37694840, 73535196, 80843761, 30821694, 11943791,
   37105974, 2270686, 91290805, 72949970, 50278345, 15368561, 8799747, 10907814, 52630523, 97795171, 30081286, 14298699,
   60406383, 13888797, 66674380, 37606362, 28791607, 88528466, 75020783, 70850425, 55076656, 4748299, 74371542, 24921331,
   83796034, 43724121, 46310664, 98527602, 25742253, 78511312, 59579901, 93996076, 34234652, 4721173, 56530877, 77578585,
   82480690, 21780785, 71372719, 11962738, 49775392, 21945093, 82111385, 15440394, 38978555, 89471933, 96743071, 33944773,
   35663691, 34552409, 36096437, 48940496, 85576105, 19029862, 73469835, 5690599, 26617713, 85494234, 62731093, 9841893,
   32441738, 57258951, 45144488, 36851756, 60312238, 34323586, 27529942, 52779999, 60493517, 88682646, 4604150, 91622596,
   11612074, 6911271, 6162143, 56750567, 45654148, 59598538, 96845210, 98997390, 93267194, 60641358, 56748950, 7431529,
   47152901, 56626149, 14897974, 39116111, 21462185, 50151671, 51111188, 93715167, 32019309, 16689487, 25236403, 53820236,
   70978894, 85014693, 9483919, 94237775, 66399171, 66900463, 53994625, 73646030, 64015891, 90288570, 66398103, 93805168,
   95068698, 71093813, 18640044, 99845117, 61807712, 13579804, 55393294, 46795434, 59221386, 68916743, 77193462, 49347171,
   60086097, 38014764, 90313607, 18799550, 90966516, 80427574, 2358681, 53309899, 21137284, 15618905, 6921015, 28184223,
   47614534, 99176562, 7402470, 94674438, 32169875, 11612824, 29184305, 24887403, 55161427, 46465645, 46604923, 38389270,
   26369216, 41974103, 76412710, 83997442, 46976535, 57992306, 83306229, 11388708, 82055390, 69920770, 84276396, 50777523,
   34588502, 76320495, 6340057, 14420766, 15343306, 64696325, 26082930, 21270916, 69534716, 81844543, 90181837, 52647996,
   39258321, 26228584, 85185328, 79636874, 27205431, 28832921, 35024025, 27712170, 81231703, 52357070, 18905676, 78596201,
   27967393, 68744040, 1432911, 62464444, 84979375, 53692721, 92342398, 95949935, 53422024, 95523905, 66675438, 95734858,
   3892565, 29919483, 40394828, 60107551, 44874110, 85803488, 60269410, 89296691, 25412664, 35455864, 66077834, 45276734,
   26215534, 93436545, 5713803, 22420708, 66977273, 33600173, 49411616, 15261106, 1085641, 43282074, 83109454, 17272398,
   20824180, 25345971, 75161745, 82638757, 86859573, 26442504, 39174304, 86601306, 10293742, 37109205, 96017677, 67855793,
   7806860, 56584185, 53231710, 24093654, 94744131, 13305511, 62203754, 63539881, 56432227, 74803303, 82208609, 11303250,
   8011699, 73861007, 81694134, 98185842, 80600616, 50196288, 44208754, 90529065, 37525861, 53342116, 68458295, 3125026,
   46366282, 36418233, 20664018, 20408098, 38666483, 76991435, 74915699, 97887670, 57432931, 33394930, 2407670, 37791417,
   29804915, 39115769, 22009814, 59144950, 69063538, 65354807, 67531145, 43347452, 71521604, 4590920, 34831989, 79376764,
   97830985, 82025924, 1137736, 41919854, 25356330, 60570650, 53328407, 37162717, 96832370, 89315104, 82859259, 59297330,
   46233240, 80424163, 51300667, 1715033, 94397853, 41636495, 66192497, 14157495, 2631403, 34046066, 56282961, 80904711,
   13505674, 72942863, 40299434, 53955211, 92426275, 80366924, 90961866, 37903493, 76146261, 8987827, 21444762, 36004004,
   93227293, 1763847, 71137177, 92206284, 24489931, 46710937, 41724389, 17751671, 10503397, 89347665, 22324637, 85190774,
   30511738, 54352139, 98388547, 10726934, 37569758, 87472981, 97296371, 53558335, 68168773, 86706471, 98883836, 30727308,
   41376706, 54562759, 50311461, 6752309, 31681029, 70828068, 8278813, 8609192, 86406923, 76922421, 59873116, 18738696,
   81136629, 92790747, 14159051, 27631565, 92744539, 55591861, 91725872, 56264542, 70774876, 94272050, 62585005, 18678980,
   15551604, 31474018, 77510651, 94580652, 80923899, 23892650, 65306715, 47460274, 90825150, 22492415, 62094200, 5899407,
   57318702, 23709941, 57749437, 60976840, 92059781, 30307141, 99447317, 29797695, 22415292, 87384778, 71744434, 32619513,
   30403566, 91691792, 28312088, 14418576, 17485103, 34933021, 15172370, 26282521, 78816903, 96328550, 44476954, 51572791,
   47253450, 99377157, 87297033, 58309596, 88739280, 90484174, 98223100, 27990736, 94004525, 6926505, 44811975, 64649844,
   57612980, 75245746, 70308840, 82610666, 24297172, 30560704, 89238708, 97454341, 84026749, 53452027, 96164548, 60647894,
   63370186, 73199188, 66435052, 51480764, 80860382, 34388701, 80970230, 43960139, 96668414, 42133868, 67677255, 8265274,
   66178754, 93211350, 88661773, 11401141, 40623180, 15767796, 53544941, 54282267, 8129613, 61702694, 62782239, 79807127,
   33200682, 37690435, 35012846, 26343612, 9589280, 20616248, 45268199, 82183413, 89465226, 33958041, 78225886, 44282052,
   47996669, 43361600, 24720883, 61044546, 46485400, 32158658, 43679907, 30760162, 27392357, 78076627, 14241653, 48637384,
   59439060, 88884746, 28032756, 93481182, 29326626, 68205745, 77286669, 99113961, 91262790, 98244716, 63740350, 9668157,
   21597432, 75013493, 12152899, 80290404, 44642445, 64830451, 72968468, 57698219, 89290809, 82883025, 30542035, 20914587,
   12473557, 19577702, 79537282, 857900, 25765335, 91549802, 30609921, 85855519, 78055426, 24946095, 13562281, 73209068,
   74321086, 15305246, 30616069, 48602767, 29264260, 8366169, 58207891, 74418151, 245337, 43209298, 62556662, 34410425,
   28211279, 16499263, 7654609, 94958763, 50861421, 96787821, 24746775, 57405167, 76650272, 97080704, 90260401, 74120315,
   26883794, 31918429, 72788516, 28185503, 41197596, 72772722, 43038153, 19853314, 53236420, 50317184, 47295103, 73816740,
   16204007, 40513134, 69657176, 60436406, 29663083, 38622845, 924425, 11380541, 97985882, 58365810, 86466439, 90572397,
   13986641, 28238678, 14615888, 82246737, 44726957, 88727306, 33763132, 20511091, 94137517, 34132045, 8881453, 2820754,
   2461274, 35879444, 56964282, 91670385, 60543743, 4087332, 57006110, 80305193, 25777309, 87013395, 17303782, 26721810,
   72170139, 53805588, 31381473, 32279561, 82852461, 58798304, 47235559, 53684942, 10893710, 74314334, 38194833, 20837667,
   17062380, 46969670, 32125993, 53892256, 48747966, 16795595, 39888035, 32180712, 26440272, 2620402, 684015, 25803148,
   33672407, 15834997, 90485792, 6096338, 28902298, 68732737, 30637976, 28745758, 2924720, 62859040, 46625272, 50247027,
   27874160, 17247190, 80717456, 43405700, 13087557, 55043348, 61687008, 87999067, 64523947, 72179759, 55117942, 68280358,
   52675825, 90427558, 77070974, 92583937, 60384319, 87395934, 79667592, 19563312, 53544693, 11845278, 52659956, 79984956,
   58681819, 46013691, 18692497, 48062011, 11403218, 97203964, 34561497, 59006895, 7198139, 13962877, 81186751, 46043574,
   35283835, 68426078, 22149782, 77802449, 8503386, 25383243, 80915634, 71631472, 33054999, 56863354, 28920560, 8027338,
   61428864, 61809703, 61204996, 45937415, 99646483, 73862297, 74471856, 38906831, 14424114, 90040100, 33532818, 42146583,
   15678607, 75178447, 38124066, 8791962, 51445867, 94401221, 8210654, 69813340, 60658174, 1385665, 49837381, 11981185,
   13568142, 78459111, 35322725, 36000105, 4735994, 71579051, 53972746, 95808598, 17040719, 81817822, 32181880, 54080767,
   74851874, 71442268, 47978755, 95021192, 30299843, 42321797, 68350411, 18837808, 44273906, 33979207, 71201282, 33674588,
   58002999, 4606129, 50358325, 56170744, 20162183, 1885688, 12372732, 53532324, 28247604, 34061801, 58202971, 40360491,
   22142352, 55094069, 44670826, 4452279, 88333713, 38206212, 59417706, 96841937, 77559642, 13643224, 22961275, 11130550,
   65020845, 76192829, 56611409, 11439559, 78910748, 57979504, 9023401, 60690636, 57041647, 49376210, 36919240, 60302478,
   73605398, 92085319, 64961291, 20584351, 35962014, 99075584, 47078795, 83555525, 19142655, 9967045, 44395526, 33040731,
   22285822, 69614822, 8363855, 77442491, 50045801, 61426466, 85119138, 65747786, 76047638, 53697800, 8158558, 65902751,
   76140524, 11681825, 72657778, 74695274, 47951604, 70811581, 18383650, 38934612, 26078460, 14358649, 36547634, 49590731,
   26609435, 46433063, 472465, 99760986, 9575120, 7891237, 37806321, 8037931, 16734562, 23687756, 83937443, 58111064,
   11707222, 85470906, 44282496, 27122232, 61704927, 35320759, 18916726, 83438231, 73505336, 36265059, 15302465, 64135757,
   33526211, 55634277, 64649347, 36058609, 22608989, 49316410, 45034172, 37097479, 59275304, 76913496, 13903283, 16748267,
   69284565, 18827363, 43402718, 74120200, 25213585, 71680284, 40920045, 67536095, 66828223, 97135319, 53821202, 72439089,
   86399910, 96075660, 41676976, 79453755, 13199587, 53728487, 89703984, 76376184, 47606030, 22376705, 18281999, 95103899,
   63426305, 25880029, 36982088, 22233130, 26829028, 44247531, 26009924, 63443721, 31655268, 16028946, 43117974, 2007585,
   70304485, 396725, 1917040, 1906281, 73688335, 88879447, 6613660, 93373070, 86083104, 27371415, 20730886, 71549598,
   98998253, 32815356, 16577567, 23182729, 7232383, 60462322, 15840931, 78890199, 40923270, 63415889, 40538733, 16426838,
   16245302, 97867234, 45938051, 20469337, 20644897, 39834817, 24554192, 17407270, 1147269, 26711826, 62390249, 65239097,
   35546585, 35333650, 32334927, 24786630, 97927564, 42936266, 67382483, 13903311, 26640364, 64741424, 25702303, 45141125,
   56072216, 2417903, 73354749, 74116211, 42873215, 66951747, 73972976, 86222277, 83260323, 81480144, 10096076, 75084003,
   56458616, 87193563, 32767503, 18297498, 26026695, 59812265, 27372176, 61471626, 78832428, 70819151, 15580186, 35628746,
   8707454, 68707966, 18565847, 23107270, 50819544, 82754547, 59689663, 29208630, 53212379, 50642022, 25156054, 97189233,
   86380427, 37664013, 84818734, 21632584, 98148669, 99522267, 63577523, 52560886, 43850361, 72209901, 35791716, 27708130,
   84199703, 8912776, 27618831, 73257655, 13072250, 454686, 67795146, 82452561, 24112346, 28496060, 50286812, 88862357,
   94080681, 35594759, 96133145, 57726802, 53620987, 86350215, 60845947, 67258394, 90581433, 40670097, 55756241, 40437896,
   87513638, 38835275, 94189711, 31827803, 33628685, 30625555, 94384633, 29296755, 51608320, 2501532, 43306140, 74644773,
   90385204, 61293510, 63039228, 10875812, 75165277, 52762161, 14682270, 22072981, 54643553, 25444306, 7035638, 87877829,
   22740099, 71588178, 35754871, 5173107, 20764705, 35908326, 13520478, 87804894, 96959656, 41538537, 41754630, 48941763,
   92953788, 57272912, 43237754, 60945130, 45965315, 88196444, 91519783, 96783365, 85426656, 39687062, 31971572, 91710729,
   30828818, 15058788, 28967897, 69390985, 48777076, 40719024, 91212662, 21936320, 7927788, 6005525, 71909365, 7751689,
   88866604, 98390000, 29870149, 24338686, 98839305, 89590245, 38459980, 85390265, 45792789, 75804660, 59832759, 3814978,
   57949226, 61324212, 67011704, 11364846, 86057060, 28879387, 60148358, 79462917, 48840036, 95442220, 23556948, 62475727,
   55474692, 44553356, 81188649, 18669533, 17890382, 29966257, 39898854, 28393722, 99060201, 43025423, 16892450, 65406493,
   33637944, 56566515, 77379650, 12035386, 54374825, 89018603, 38351655, 31813703, 24498946, 63200313, 278911, 847231,
   61492398, 75257049, 48989614, 21170464, 14971588, 93108993, 85680704, 39644496, 48158227, 56976652, 54711321, 54802753,
   12300579, 49329002, 48206077, 94219778, 72939025, 11751897, 61916079, 17853862, 648343, 43787872, 80015448, 31755585,
   57379643, 54269845, 85627977, 62329177, 92767367, 52906076, 45188033, 64946938, 62541459, 55272532, 51106539, 92986642,
   32344175, 65116944, 10887837, 72650008, 22289477, 1074614, 43905996, 17165219, 87396505, 57221901, 66574975, 50644616,
   62219854, 2593128, 58762016, 74637111, 4838893, 75421286, 19964012, 12401437, 26167521, 55090111, 3800527, 38710890,
   16543951, 16131061, 17751403, 73317049, 63954019, 20717050, 43155905, 60825993, 75520928, 57152807, 37618312, 14879160,
   66574892, 82366252, 99931586, 15301495, 92451115, 43042457, 62135398, 12336214, 43472331, 88522825, 38413798, 20814986,
   23135331, 65652153, 77817088, 38094658, 21450828, 11140618, 20010425, 29272222, 18673019, 82442657, 24368509, 71489315,
   42389067, 69519998, 5494729, 77467795, 77700338, 98871458, 25786107, 58989569, 30565839, 17541088, 49835597, 75353479,
   28793934, 10917058, 25651572, 29782747, 43101284, 83145502, 65142059, 8308713, 75270282, 68344541, 66251614, 63461366,
   80956862, 27056586, 60635341, 17116782, 88413910, 12910946, 70215590, 67832212, 68590790, 10313106, 18140771, 27683994,
   8677368, 13555276, 38925220, 12528719, 14648839, 9943649, 27637651, 93630333, 76152732, 92424342, 53395302, 42334898,
   16522278, 33902623, 13999237, 1649466, 65517586, 23972793, 16290677, 70718792, 79509973, 50712021, 82412586, 61637865,
   30077470, 76771045, 38293884, 65778877, 73786800, 47041037, 28332845, 56136401, 86288385, 15467881, 97186807, 53832841,
   66841445, 91422951, 55985323, 6197103, 854260, 88161844, 80063468, 49239374, 94238155, 41901564, 53774234, 55888092,
   79637887, 61489767, 13569753, 5233584, 22415210, 97558893, 5111253, 98364394, 91853178, 13948680, 69258405, 13809973,
   71498134, 42443933, 74601122, 6452762, 1388593, 77162644, 68200455, 78506184, 5585370, 82562696, 28000285, 11339433,
   17186251, 53906002, 69421187, 39771789, 67328204, 17399408, 22765707, 68446127, 77445489, 76682109, 45836930, 29379277,
   62755044, 52010296, 77824688, 65336149, 23452432, 74515853, 95828405, 14805492, 42294314, 12589668, 27045205, 71227905,
   98398051, 38604499, 1428804, 35949214, 52525373, 93324684, 93363914, 43101450, 98176766, 78997006, 81627199, 29895898,
   80665437, 28054590, 37610900, 1598427, 37949668, 45081239, 6028707, 69921367, 60641730, 23628749, 71828979, 60564850,
   83624554, 42941486, 88727451, 6361216, 17935026, 20808162, 90321800, 31824595, 97739927, 54361393, 24712558, 37830597,
   41813792, 90641989, 97164944, 44699856, 30426869, 37874679, 12841751, 57308549, 22253639, 69481459, 82462093, 44516583,
   46999733, 26909987, 89097316, 37650299, 94777547, 38697358, 93618480, 88705941, 4529646, 41886645, 45056745, 51214556,
   94693774, 8932358, 44996386, 67329055, 59420328, 90126775, 16940534, 64481889, 95404060, 3148520, 46790852, 12411291,
   85038186, 75432330, 40444277, 8956903, 49859552, 47392620, 33059663, 27871885, 95007257, 70437791, 90657278, 936539,
   70990183, 11106742, 15651796, 29947927, 13059507, 44332630, 87640610, 12531330, 23381814, 70162383, 60220539, 46063888,
   10063888, 25631592, 66227555, 30874270, 61127876, 57858652, 44750865, 46737411, 42550000, 18783996, 18378934, 30232177,
   68865812, 86535132, 85217972, 97275132, 63584211, 10035539, 49021920, 30844092, 74503274, 91712470, 47677010, 57179467,
   63754621, 82939659, 14239180, 95914235, 28926304, 94981276, 9964748, 38809966, 90076324, 5186642, 80099735, 56406122,
   90812350, 17506453, 55696833, 27499511, 29438119, 79132062, 11474713, 17415311, 92323276, 42906291, 54523927, 4742201,
   39568011, 15859223, 90689195, 6626638, 47469987, 19383694, 518649, 86157361, 44381286, 45196040, 56207344, 4499727,
   49785594, 76574426, 47817543, 5308055, 81100100, 20348380, 63976163, 73876097, 84641905, 12480149, 78661312, 1729324,
   89689815, 46276586, 89522064, 13526299, 12906618, 92162498, 50759310, 4741144, 76421769, 43539926, 24654096, 75972317,
   12612472, 10475385, 48578679, 1228014, 89352131, 92647045, 13008097, 59017174, 29922574, 56453241, 36633811, 48412899,
   74635375, 55575909, 66632556, 63479553, 41411822, 97648753, 8545041, 31530803, 16343935, 16689862, 95889070, 78838627,
   98621619, 11597251, 41796472, 57411971, 58300070, 87117551, 35770028, 4418885, 23658967, 7259626, 64528509, 80186143,
   63823747, 43238521, 72170975, 43818943, 91703709, 77141510, 31814668, 43550290, 20042484, 21468466, 78227198, 47460272,
   48440835, 75997781, 95625815, 42788830, 23231843, 20869150, 36096082, 88692383, 88468714, 72319295, 92820173, 91413129,
   15427089, 74619678, 19964489, 23580594, 26321891, 45254952, 46245789, 93844784, 19885877, 15289255, 34106145, 7134146,
   31055335, 57565137, 94040103, 62427530, 77454041, 61803414, 70936913, 93767270, 66284119, 28784038, 88859282, 43323166,
   59373626, 73173988, 13748068, 14887840, 98576118, 70020564, 8088856, 6489535, 16358909, 93120409, 55782523, 5544961,
   11506656, 50986031, 42319896, 43121601, 52644612, 14703956, 56071005, 2736, 21903970, 6012742, 67303128, 25715602,
   43520634, 78086573, 52178319, 92095737, 36738259, 80843266, 94401597, 23371760, 49766954, 74130089, 60974461, 33555768,
   97971148, 94723134, 45442380, 9107399, 42850518, 18342780, 45350264, 73764655, 3039371, 86637266, 6279599, 73698047,
   94788352, 14687270, 46803658, 29096642, 39340355, 43194768, 46357946, 97187346, 87730915, 89320477, 8264981, 26412484,
   30101124, 27968650, 34271748, 20113878, 16309174, 20900020, 26509669, 82873818, 32491190, 31940408, 67241903, 14707844,
   40054048, 57282713, 76722030, 7435931, 61812526, 86697746, 43101823, 74973230, 32398872, 91780896, 25470797, 80887005,
   15185032, 80642425, 86188815, 6490691, 47193787, 72651144, 44479128, 2757771, 54997914, 14683495, 3980319, 66449904,
   63069170, 24418883, 19720868, 68047444, 45863784, 79013275, 86590302, 52327769, 83051358, 57517954, 6213225, 83423245,
   54081854, 47512631, 72651632, 39881972, 58545550, 24505705, 45239632, 2131728, 19741281, 93251553, 35663828, 61619348,
   15073155, 44715957, 45974666, 43232094, 28234822, 39690193, 49167097, 63612182, 4042265, 83604400, 55956076, 13693973,
   17207034, 86438037, 62650089, 83913046, 25284111, 29896256, 90193257, 70089069, 32665027, 34009533, 27744053, 68901965,
   80841585, 63815880, 29637566, 33676688, 72995327, 48939370, 51597029, 22408783, 90616235, 13231881, 79923162, 41472829,
   87767540, 74399726, 40205578, 94139594, 64743914, 37030370, 26394795, 89195549, 57918438, 97179597, 74167476, 94280700,
   33302082, 26120073, 55383309, 11597569, 29262836, 94353930, 99286797, 68421330, 39318644, 83305672, 94318738, 98084772,
   51503724, 20897239, 16979277, 91909173, 92669136, 68203119, 21819328, 50988291, 88579380, 88076707, 89414809, 82310950,
   60732004, 48020378, 51041887, 70339518, 81244254, 44580691, 21653111, 32302504, 87023451, 1161916, 6387867, 29812771,
   63045287, 36552575, 4668197, 94417897, 39191313, 92615206, 31275320, 83477351, 95765564, 39698996, 83666382, 78949319,
   9767156, 79230344, 60886691, 44582172, 40629291, 18629755, 72223641, 25274690, 79307974, 48955164, 96833953, 84144275,
   87030287, 22256848, 52872819, 66019763, 65972256, 96727232, 17580107, 9121034, 6371614, 765426, 86089732, 61265129,
   81218219, 67215281, 70313400, 56967809, 23972421, 25247778, 98231670, 47529459, 1671888, 39420730, 26836633, 82518246,
   8192748, 79065782, 19912714, 65604311, 64148254, 70018400, 74245793, 19548151, 63549502, 3797623, 85549758, 16956660,
   49092301, 47836615, 28305422, 44571654, 54159559, 76047915, 43207717, 99351087, 59091075, 90450214, 71380327, 66200806,
   10896295, 35267915, 65425382, 24032769, 69348133, 53412851, 39211487, 30005278, 45693493, 5917128, 97527645, 60023615,
   67076570, 68022466, 70362151, 84952709, 66697420, 92922967, 49865708, 59705303, 14666292, 4075727, 41712811, 94881965,
   87347340, 7635964, 68020936, 87032462, 7672376, 32855189, 18175589, 61203617, 93504893, 26385840, 93696746, 34158180,
   21349737, 64874460, 70501641, 90392507, 51574318, 66086795, 27382850, 4241914, 22209241, 49753934, 83860330, 36004228,
   8431999, 52451726, 93812559, 12138698, 29711212, 84585206, 74080050, 86000224, 85610886, 51754084, 77567339, 79018614,
   43247165, 44049502, 31347528, 33162682, 8782488, 14675949, 97326882, 24983177, 14650232, 44078566, 6548310, 34781516,
   58261161, 30448940, 3786635, 53868149, 3499152, 9752889, 98712566, 71317285, 26015481, 78866539, 94062924, 10421049,
   6569668, 41496351, 70502235, 33374467, 99750858, 86780758, 23396465, 53022917, 81743035, 44638632, 34238041, 43992045,
   88181035, 26228488, 69924562, 79420757, 49672850, 99606712, 74780965, 65924734, 15502646, 39509253, 29513980, 11046649,
   41123148, 57369118, 86424116, 9047798, 95750449, 71844941, 32028490, 15898717, 30499064, 59882516, 87545431, 72389002,
   9532745, 53411714, 72840624, 32439606, 13156663, 82200124, 30180082, 12862187, 65520424, 8037223, 49956972, 7365385,
   44342978, 93469543, 34131292, 82103276, 46763572, 77014339, 45777615, 62628509, 75863936, 52958744, 54194285, 84818538,
   30191809, 35633147, 17065242, 81118758, 66706581, 25746540, 3249828, 2483574, 62665503, 78115098, 7691722, 99697356,
   80763386, 84408025, 87292907, 83194969, 38622360, 83728798, 14771786, 95105625, 42879375, 12817372, 44732205, 93030801,
   27653295, 39806645, 96077846, 51397613, 69210539, 56099050, 14578104, 80531621, 57789247, 17452362, 65732606, 29284479,
   60351772, 96920408, 14670163, 5836205, 47355040, 85983607, 95211159, 46754474, 98938088, 84767360, 59593615, 59287390,
   79168142, 48957865, 12105596, 17567062, 24766228, 22316542, 58835342, 49049906, 20241950, 76217008, 15790424, 89172124,
   95915931, 63841637, 30959913, 1264964, 35618982, 43388646, 42193165, 27719218, 14282802, 17383982, 9911762, 79948414,
   57751843, 75105772, 12825264, 7754475, 42874556, 6857284, 67422926, 99628538, 78755153, 52015688, 28108083, 12116327,
   57066521, 45599926, 60495881, 9834432, 28531831, 72816690, 57633464, 34345479, 34268488, 55108776, 16310243, 67354796,
   79145345, 34804662, 36579767, 8735030, 65192052, 42699069, 61573717, 86006529, 14709099, 61367811, 81795518, 71027966,
   20627686, 490681, 92175211, 10263856, 17737326, 81407213, 90762502, 52658176, 70571471, 53518950, 92802824, 44493733,
   3364174, 10293287, 87964071, 97218723, 57624295, 90292722, 74241296, 20671082, 59210542, 51187407, 16778087, 18726597,
   92451588, 26453750, 66528789, 39425394, 12466611, 89950798, 76783629, 63865070, 77870019, 59825183, 36669969, 29908997,
   67087963, 80260812, 69285475, 25532674, 6371767, 36759197, 13172814, 85475788, 31567487, 39417627, 20767460, 13562581,
   82641061, 99139118, 58629881, 23876010, 46399508, 78841377, 2276162, 46801627, 44002559, 76835025, 75641879, 25158278,
   52026739, 60094047, 42180965, 71391409, 7782271, 21202542, 30006777, 18178810, 65042622, 73208070, 41682866, 6866638,
   93305452, 99038438, 55148759, 20073020, 73338238, 41024474, 53872426, 63270073, 77887521, 86289388, 84144406, 59226952,
   81310855, 49785168, 71211483, 26615738, 2875716, 15375320, 53188260, 9660622, 53567604, 38640444, 34426598, 48139528,
   23256851, 37621001, 88688031, 71336605, 70511881, 56007451, 78251074, 85569449, 16461070, 10128376, 22002906, 4844471,
   56542960, 73172820, 65360988, 53035888, 21524951, 41457472, 38540880, 68205715, 55418316, 27746241, 13743811, 49906564,
   18262392, 21435874, 81976772, 59073968, 50047184, 59153318, 51931065, 38191523, 48967035, 59545199, 2273554, 77386903,
   69754243, 83463973, 13777285, 69759330, 75057330, 68779909, 39971672, 80157745, 38443295, 15455135, 99175025, 75376916,
   89590221, 97770295, 43080289, 79592820, 4871178, 89486678, 4750696, 62260951, 59003093, 23691237, 87260703, 68256903,
   38001112, 60419173, 12572555, 54166245, 76535565, 21285915, 15633942, 68242029, 65652757, 43466199, 13797734, 67149425,
   36536933, 98203002, 18973513, 13138301, 17811776, 24481685, 52980218, 21665501, 68158444, 98660912, 25987914, 64225207,
   91634763, 59243960, 97983613, 74793939, 28525841, 96994973, 80584153, 16833997, 8909478, 52502408, 16897244, 7386957,
   70660686, 47658131, 82438484, 85522122, 68405621, 88411098, 59378004, 8932437, 91463651, 60140633, 19254769, 94649338,
   33491599, 24723496, 24622855, 90899496, 68800880, 48882462, 41177390, 36913947, 90855009, 3770925, 32132790, 34373060,
   95344689, 2392963, 70228556, 44269933, 34785933, 15803350, 12379874, 62599188, 47825971, 80546274, 32073297, 87048457,
   29327242, 65950400, 79489488, 54265661, 37112958, 70985975, 45934094, 68128353, 66707556, 34545948, 48053489, 17146727,
   37709275, 82041107, 44648454, 20301784, 59802334, 71490136, 14054164, 18724222, 2232117, 82996565, 5264150, 34637841,
   81262878, 78798775, 54987723, 17389641, 67042485, 77171548, 38788239, 51779672, 88091173, 50446541, 1208175, 30965540,
   7065063, 89571194, 94612174, 33606188, 88175943, 4036994, 66736567, 72041475, 75914770, 5095094, 42208917, 46889090,
   83812674, 4390598, 75872937, 60011693, 45378855, 483079, 95558200, 277655, 19571967, 18340762, 5282715, 47770113,
   21811073, 26147116, 52409772, 54619134, 57821651, 40931506, 22872429, 17149477, 56842656, 73663471, 45133481, 57219201,
   19697669, 20700901, 86822651, 14804475, 1600378, 25192516, 93417765, 68469066, 23143198, 74469919, 93436318, 45164905,
   57265973, 1911715, 27346559, 84995729, 2589232, 96271932, 14820959, 54593607, 59586325, 4257265, 51831502, 80250412,
   58545685, 96247777, 19892270, 78668417, 66334295, 10116039, 2778390, 36925579, 57194575, 56592230, 89715635, 29712474,
   74451384, 43260790, 43534164, 57054820, 49575046, 73246423, 555345, 4681999, 3990333, 37635861, 24607263, 72440770,
   40443455, 82577194, 94681546, 44452817, 21874753, 24813480, 28689800, 64397870, 99731022, 47220189, 40145752, 81219206,
   42874219, 20398670, 43181666, 37953255, 75973987, 22482192, 18349004, 25077578, 57598262, 73079020, 16974095, 96669438,
   30003133, 69215382, 97932087, 33556372, 46574700, 96097182, 81303448, 70524225, 25447236, 34640303, 34118329, 73896444,
   13708870, 16626587, 9233387, 7710294, 75675763, 32233125, 986597, 73213479, 8212135, 77956894, 53165623, 47548528,
   42809024, 94707293, 19289886, 57641754, 60277075, 13874775, 32237736, 16087815, 29505597, 57473931, 72941589, 58239145,
   45474495, 11300566, 19372191, 89747061, 93461151, 82691794, 83702104, 99214156, 62235335, 6525988, 50851706, 83667709,
   71496535, 78714292, 82425217, 2707639, 83278224, 59666684, 62286780, 88132961, 3689946, 42179748, 58190844, 13905548,
   91108620, 9727879, 65263154, 65163926, 7517593, 66111941, 17394229, 67350921, 26177790, 38031279, 83227691, 90457915,
   83698463, 76658618, 31578729, 45028027, 94421254, 86583471, 49562812, 77431600, 81541524, 23270170, 98241571, 68535033,
   16608646, 77292223, 17955719, 31804944, 14321549, 31970398, 20968942, 33498752, 14434177, 39265824, 48235947, 51041203,
   19565090, 62894689, 96504388, 21132611, 74144017, 87566499, 33498183, 70554850, 7256623, 76332152, 67181966, 95834791,
   39989638, 1260833, 36265853, 94420972, 12882704, 8422981, 37562534, 27643191, 14895166, 11233542, 66968806, 23499513,
   68751088, 85906730, 18336039, 58232062, 98579377, 11254915, 97677828, 54741748, 77080290, 9592551, 18596029, 40498844,
   37170143, 54503381, 67051995, 29539455, 58796225, 13333079, 33776355, 39420870, 5089196, 88854568, 6048925, 95166562,
   79859641, 89720440, 20277461, 24647430, 81714031, 39232873, 56915001, 12255206, 6276197, 37074591, 59069261, 20288866,
   44482482, 59260752, 98416598, 33240932, 98890082, 94147687, 68042881, 6977758, 82807251, 32723675, 24397747, 64074786,
   11938465, 28408273, 59768437, 40693655, 24496531, 32825954, 85466142, 71893141, 81291248, 82109136, 47218494, 18547340,
   88930979, 37245239, 93955623, 90852573, 9801675, 82069448, 61020691, 33401934, 75771013, 84836595, 2706997, 22891278,
   72714934, 6589620, 85045446, 60926018, 6043114, 26691278, 35499382, 37456647, 63179869, 43647029, 80969871, 70552269,
   80846253, 2842853, 65261417, 50936679, 66074650, 3421916, 12747370, 59138298, 37910504, 28156620, 25954470, 17745793,
   8074512, 761203, 19391234, 73110755, 96780930, 21798785, 18948622, 47564174, 90131347, 48067984, 83534188, 27445013,
   2832854, 87072716, 32351882, 59894537, 16940756, 8360081, 64026322, 11729839, 39146342, 87532059, 2551852, 87805218,
   37974256, 22730682, 15673076, 39400577, 11808422, 14391690, 99455398, 2147616, 6084052, 15661569, 89900879, 10831237,
   47201708, 73504108, 28264542, 8356621, 93723403, 64182492, 37017615, 76284504, 76643984, 67717149, 22178295, 91785476,
   33305496, 79608174, 39098439, 63932568, 48639452, 83591876, 57106583, 70402731, 52501927, 48425402, 91815699, 99581330,
   58542663, 94974990, 86541434, 37358801, 40561068, 92157085, 60792157, 38293536, 99771921, 77309168, 50144765, 20573172,
   33819084, 23995507, 67154812, 89878395, 20098317, 11853883, 74043934, 42080064, 53991385, 17595629, 15726367, 77430262,
   97535868, 90407763, 33067391, 5730446, 78663341, 88577037, 96615557, 76047034, 40085922, 60595989, 63913405, 15312481,
   51650944, 82320519, 69084327, 40019464, 26326879, 10733558, 12035199, 78272611, 55844406, 78593526, 51630346, 45742954,
   37190402, 31525659, 11487594, 57220215, 88157563, 42054680, 89921930, 76404945, 73266564, 24633691, 96394175, 94888996,
   68575434, 71583864, 50569398, 48090, 13392467, 9452527, 19824728, 32836965, 68431711, 60976746, 53528580, 94541908,
   62235775, 18802648, 46471623, 74506020, 65882431, 68842161, 49042092, 49697622, 87319013, 83458485, 73678876, 55671786,
   91034670, 18665608, 66491867, 22643928, 64190215, 92345375, 39748916, 82633124, 89956579, 17659339, 6706482, 88828962,
   98872817, 68121903, 86480463, 3305836, 74795536, 68139540, 98540116, 77628951, 97410355, 75935815, 53141929, 40029198,
   51491117, 21969752, 85183615, 41842211, 26413869, 30239223, 37128871, 30218426, 75125536, 14448254, 76494286, 36238648,
   58979214, 7446596, 49550079, 15431745, 44758102, 26899038, 24884629, 35813032, 12571660, 16969697, 29533933, 60227714,
   38983538, 68567322, 30436978, 93583175, 60485018, 63536514, 98847908, 76764081, 26680834, 6207567, 91779874, 98666339,
   83626644, 5988199, 83996269, 97865330, 52723559, 6920207, 16201480, 17228889, 93502704, 27189643, 56376486, 72509480,
   92398136, 52733420, 21886727, 99304702, 64774307, 32174392, 92409042, 10771377, 67169297, 78528197, 19934039, 61224839,
   14047317, 53211623, 76462010, 97967519, 56114282, 50491000, 76384407, 19404663, 35669674, 38793118, 2324750, 23967070,
   11116354, 83088337, 40625304, 64056799, 65367923, 6565904, 58278344, 60858317, 45542335, 89280526, 62200011, 14695349,
   80877929, 47479309, 74952506, 86746989, 63763897, 96310694, 77943627, 93710259, 88206609, 83168907, 45099466, 87394819,
   78317668, 29261444, 917292, 48065391, 37739564, 83224206, 14135995, 36169203, 86233536, 3629159, 81920624, 58725051,
   86079952, 64189008, 83148844, 29394839, 9718401, 33743599, 33139531, 18995990, 4918239, 91194360, 85049933, 93111779,
   7745494, 19024229, 38947631, 89235516, 6872508, 68727079, 41619505, 86559186, 28495568, 81492541, 65352930, 3560377,
   85725044, 99696578, 94409543, 75133797, 36560847, 76409456, 43331575, 79136756, 62601669, 63623027, 9694247, 98500943,
   17455936, 21689842, 85557757, 89755396, 53334217, 20035113, 94502480, 33735725, 66138224, 3154780, 26822835, 20248510,
   16606589, 83317059, 99712683, 23735505, 5696911, 3677870, 85414270, 5693828, 45652318, 92998669, 87287797, 84133762,
   14479994, 94632223, 29751048, 71253009, 42474524, 93781519, 24102874, 22505756, 81942816, 6885435, 50300334, 87296602,
   61074753, 87455852, 52403252, 58237202, 64199484, 93819177, 27386518, 12861563, 52548720, 93098255, 87075521, 71888069,
   8339898, 44950378, 67165313, 37705020, 59222174, 12628145, 85299211, 22836740, 11800819, 16579876, 77986888, 83122789,
   78008544, 37300928, 95275306, 42914816, 69957077, 77510015, 57341789, 46870863, 15745875, 16878366, 33116719, 25942199,
   70005430, 70114819, 88633161, 98262472, 74073144, 86599418, 90161084, 1551685, 86247172, 71428651, 7379177, 7466657,
   29428154, 79069342, 63609411, 42318145, 88698115, 95640786, 71054640, 32901663, 45216393, 21519943, 52565983, 84389193,
   27540016, 38014868, 37374977, 68841709, 50739998, 61757408, 43023693, 41983874, 87170348, 9759120, 68437761, 45220784,
   70561234, 21199695, 3709839, 79746190, 58554632, 84910327, 57262338, 7174773, 58588055, 97212431, 97093581, 85335374,
   82864429, 6754495, 58573240, 90097532, 37454214, 83550907, 42557529, 8664835, 4365413, 79265159, 28943909, 38412915,
   71019904, 26527532, 89364552, 23575973, 58906683, 93499376, 3043979, 86590966, 32586943, 24903756, 62757952, 90746787,
   88817984, 46225146, 69011320, 45050944, 99271444, 39676011, 58937223, 52379276, 36402188, 72345871, 81563688, 86039958,
   91279138, 47719842, 6755725, 70895006, 56047756, 62749921, 88340939, 38037737, 28151040, 34470505, 171977, 25986819,
   40941303, 79130869, 91459233, 42746353, 34866584, 54983022, 34933360, 53043272, 44051308, 81988221, 93393861, 95151572,
   45332504, 5241113, 70605010, 56155516, 35157197, 19083709, 42073130, 21826351, 81366231, 96500133, 29272755, 36979652,
   81183488, 46597306, 21023215, 3466872, 55456749, 78879648, 46660639, 70012200, 62765502, 53830207, 85185271, 72457231,
   10551831, 55362298, 1926874, 10474237, 28847103, 36081459, 59663550, 83134859, 23814950, 13544646, 86817456, 89706715,
   66581547, 67496438, 94079855, 38445527, 51737035, 57273394, 34065574, 99345094, 1395620, 1680551, 6904711, 3966760,
   95356355, 66560711, 56868752, 96135363, 83636445, 38232659, 96274113, 62366465, 571053, 50984726, 9142196, 36856942,
   14744902, 88401390, 55357419, 36901430, 22317759, 51281077, 95158811, 66639834, 70625760, 64647572, 78085468, 56523999,
   2940564, 77146094, 81842619, 36327773, 14034259, 42218853, 60567351, 28628577, 44971773, 78788163, 19840316, 47178535,
   37415502, 46655892, 61852476, 88364361, 24978798, 28321978, 63232456, 39943947, 72613829, 13574750, 89622089, 48498691,
   50783269, 96198217, 41633262, 65766027, 25901764, 74209597, 77920494, 90207624, 333873, 48197142, 64623857, 92923002,
   19682420, 87613406, 38302812, 7659426, 85169334, 81170012, 57720637, 29823712, 67487563, 22458662, 11609557, 61230393,
   40402165, 20613245, 43836047, 37688306, 15327413, 51562117, 26622275, 32107222, 43805262, 43432653, 26792657, 14923364,
   14946470, 31224300, 90495281, 73038548, 25695583, 6616665, 23744930, 14500202, 37847003, 94289741, 36128719, 91708533,
   26456176, 38546150, 82147189, 450020, 97342502, 5255149, 32056369, 45267161, 5032881, 9854554, 15261855, 49185187,
   3472674, 96463109, 82393307, 83750816, 38607081, 36059967, 93987707, 34393889, 32556411, 4203329, 66932894, 94162817,
   22784447, 49255071, 29779358, 46386016, 12991609, 39926812, 78505165, 32257082, 71145088, 56986616, 39201936, 11231451,
   12717052, 92444914, 43588786, 30471604, 99736351, 55510121, 49708808, 84717116, 72337407, 67164545, 76756947, 3776622,
   89945899, 6282472, 15891247, 2096794, 28953703, 64503543, 25698441, 44353390, 75232121, 3032222, 94308398, 71406781,
   31475891, 81248633, 74140618, 33263116, 20960252, 48462988, 59339966, 74436693, 12341872, 36048104, 45606477, 43442196,
   86413393, 27490103, 66205796, 94136133, 94403175, 52733613, 59447050, 61530458, 91156270, 18102263, 34449789, 33481068,
   91211213, 1964990, 51501077, 89325227, 34480501, 84123604, 16812796, 35629972, 61380407, 97721683, 75017746, 72544864,
   42424755, 97516489, 68293091, 45782085, 50565998, 94356934, 36301592, 45600460, 60323802, 20592602, 97389229, 36183684,
   36892917, 8847089, 49702823, 54009589, 28878943, 76877831, 91334721, 76959139, 4850034, 96505575, 38723010, 54881265,
   86531060, 66100793, 895439, 29968094, 17867196, 30932375, 82573301, 61321604, 66865530, 54855799, 9821972, 50094022,
   84661540, 14363276, 57488878, 30691552, 93948856, 25767655, 68990968, 66711557, 96805240, 54292202, 40744763, 5585945,
   80030245, 64893088, 51825910, 58831545, 38429202, 15940870, 9229002, 22408743, 12439802, 40774111, 65821531, 7503908,
   17172445, 37447388, 85125956, 859507, 8408739, 36390604, 44513962, 69377670, 50320317, 45219552, 12766535, 21599711,
   49093234, 78596319, 75158228, 52499222, 81110167, 34473172, 92186768, 11629733, 95506488, 83696819, 54053156, 22870919,
   69026106, 36384421, 58044536, 95661109, 43817601, 79657953, 39771572, 75391279, 14633910, 10074531, 84938094, 63274109,
   78114891, 28435439, 55347003, 72105484, 80482417, 99608771, 34641951, 8672753, 21914000, 84237183, 46067135, 69288341,
   36511937, 35600205, 31680664, 93089124, 89542887, 38702090, 43818968, 40501906, 40480945, 9088967, 361028, 46220862,
   88155870, 60190548, 65319749, 18601029, 40499770, 18802711, 61850092, 45295077, 67064886, 75322108, 3103058, 71418346,
   35531311, 17855431, 61111819, 6351186, 5854507, 26314540, 80284803, 10760258, 90744226, 18523497, 81638925, 66361356,
   74688077, 40644679, 82247294, 30408154, 87727398, 84515399, 94164314, 36596095, 27884924, 81630658, 47986239, 82071940,
   8949895, 95626181, 42335280, 89771246, 47093948, 70755294, 47299422, 82382112, 41996269, 50458108, 95164635, 15756353,
   93992581, 47216292, 36283304, 30298091, 67601922, 88133937, 65794369, 6964906, 24346555, 12526877, 99525324, 49160862,
   5653219, 11006951, 83088621, 52763891, 86717553, 45969810, 34226041, 87189992, 29499359, 19087008, 33849950, 44749562,
   59185951, 6348250, 50336385, 57321606, 20543726, 61023418, 40871299, 92988742, 14270162, 65519792, 56106800, 71523291,
   23427002, 12306563, 6055806, 1554698, 96390964, 22796996, 46895254, 47941242, 31210922, 97321129, 32798205, 9410963,
   49264344, 20193288, 8461561, 16235183, 62977809, 6701406, 48795071, 54073059, 66489952, 62526970, 39133881, 40384563,
   75468955, 69869334, 59472092, 17536845, 80123301, 90035193, 13783584, 22892611, 80829866, 18609991, 36408520, 86174998,
   51783184, 59369339, 57470411, 83122048, 12208411, 98345562, 32418662, 86891939, 23420266, 82836402, 67680362, 44973776,
   4848676, 93793826, 84926457, 60115607, 28263369, 98340126, 6864627, 13351743, 89776388, 16710817, 94174780, 14111947,
   4437319, 42781523, 1729157, 70913664, 41338236, 80231686, 94752322, 24331475, 65463290, 48660033, 4000090, 41284534,
   62520373, 8465665, 45495511, 35198149, 97183621, 90992674, 75105329, 78020540, 58165271, 61313188, 44628665, 10387651,
   10443165, 44485141, 18034988, 36029064, 473735, 31836754, 24193855, 54525007, 20610474, 79095484, 72925272, 97370981,
   62148555, 80326367, 13959433, 72015907, 65966378, 22751628, 86742801, 16421693, 2018492, 62529837, 50163043, 49097432,
   83699960, 64460272, 96808566, 54907582, 64193539, 40135904, 14709052, 43257894, 13393206, 29214620, 51539347, 51201519,
   52773352, 94015640, 90043742, 87859454, 75507630, 50558453, 48918337, 33347814, 17624339, 54723407, 59184235, 18104473,
   7461840, 9213707, 68590142, 72731431, 96633097, 93404224, 73822284, 4947732, 10762379, 74153692, 9549142, 14466984,
   53773982, 83252486, 50724369, 39929670, 9279190, 7055968, 84962113, 37643834, 47619942, 16533878, 92685435, 81993828,
   78178461, 1460201, 38790635, 9228732, 70175092, 6960840, 53567942, 39622112, 92144237, 99034762, 5725604, 70812674,
   38872351, 9872458, 16655623, 11224252, 43370531, 80232547, 1544706, 31306163, 96748220, 65303193, 94838361, 42740141,
   85572353, 50473063, 49823259, 28252218, 52904937, 11507027, 49072533, 68927453, 28257758, 43039075, 51439305, 2334634,
   80024948, 16803671, 96024538, 85193034, 87700338, 38755216, 30269097, 55033516, 12960547, 89178864, 23745689, 25920286,
   71018248, 96208550, 72326598, 68373169, 59877878, 78251422, 47530000, 82103573, 82554981, 21091755, 93917471, 3910911,
   98266010, 72556023, 90230236, 72840891, 20200650, 50886549, 97884825, 8308760, 39766619, 63101469, 62420983, 12873899,
   68287160, 24872453, 87923285, 62769896, 63602969, 46843289, 54979378, 22263300, 68292111, 31538156, 72284444, 40021984,
   59114858, 34407842, 57934065, 23016812, 73104285, 59234134, 17400710, 81011384, 54781867, 51270342, 27646559, 4571833,
   609660, 4721221, 41705300, 77040662, 40073782, 65127821, 26558475, 71986540, 93857393, 83592414, 69776052, 38935049,
   29206123, 17205945, 73654605, 13791733, 11220442, 43131352, 72407332, 4602385, 37537177, 47527025, 81432607, 22508418,
   33129668, 39320549, 28218926, 19264503, 28330903, 90333628, 1715373, 50060636, 17622824, 7755122, 24528031, 34465392,
   62194727, 66978358, 67924186, 63140307, 61019933, 26250154, 38438805, 14549458, 59046112, 52362421, 15360933, 11000250,
   44159221, 21973041, 60227845, 76727039, 42650032, 65579161, 84124820, 24835844, 74686084, 15979660, 19052804, 4126420,
   51588237, 1443349, 39885558, 49444428, 42206383, 13528343, 84851905, 73790343, 9301067, 65067151, 38825240, 13803074,
   14588422, 31561044, 71334059, 62908253, 19583027, 64038900, 79356565, 37417236, 82836370, 67187987, 23842844, 61908352,
   29968831, 75026315, 22688122, 63862158, 79982224, 95964124, 96458892, 39409097, 26743714, 70706972, 40386440, 80117603,
   58104093, 71076186, 76612871, 24812792, 7111814, 99417216, 31965532, 24819019, 12158103, 47953418, 24282792, 93640843,
   64775221, 57703880, 53335462, 41388172, 63732160, 68637626, 55268697, 27253424, 81691582, 92876085, 67204492, 25849841,
   21967409, 9477855, 72167657, 79411576, 36652333, 14077741, 34057780, 67883083, 2534734, 51234656, 97447464, 17301602,
   8318758, 11194168, 13804972, 17727037, 18951623, 89502908, 12323857, 44864626, 54630336, 52949431, 89956621, 32159510,
   76519948, 20234354, 11260564, 21930304, 43835746, 91609730, 84362761, 83683351, 88658675, 15640068, 41923158, 49191820,
   67198620, 94562116, 46832637, 81892849, 84429987, 11207356, 74442287, 85872657, 82374541, 51265547, 53136131, 7473995,
   24283857, 61314962, 47860469, 72601296, 20280788, 8251709, 78832612, 38906046, 89079506, 74606753, 97039740, 1429604,
   51089496, 55634710, 21175578, 34407394, 47585603, 64354281, 66239188, 39195820, 32528134, 31667850, 56787698, 42061186,
   97128532, 40389861, 78238707, 66331352, 98211462, 23671144, 5523221, 20201133, 89645961, 87363758, 83622996, 894545,
   77738768, 22744816, 77219350, 89682833, 59042917, 97568170, 72847921, 68101693, 45390095, 62034132, 14948664, 68571665,
   25414080, 99177975, 82017122, 91971604, 67428524, 63649791, 76629250, 45990644, 52636575, 45483938, 11940166, 12929541,
   53268002, 58718915, 46897195, 37270153, 24350822, 87490172, 69378799, 32338118, 22129654, 1298297, 63386515, 88628605,
   78732940, 18867765, 98895014, 76518677, 198951, 91576070, 36577666, 8320350, 16681363, 62928432, 58768837, 83722070,
   10864038, 57521989, 82284214, 7248912, 98648227, 68851562, 85442151, 49277094, 60772418, 76821282, 21227573, 39063753,
   88687315, 56671971, 83855491, 6864931, 52235554, 34547244, 29496496, 45370274, 88911802, 89727556, 72707796, 16762264,
   815179, 42023967, 50847541, 40398316, 68502436, 80364238, 96658043, 97919829, 16471711, 39025390, 76631883, 39342812,
   67171291, 51760331, 77475609, 29113200, 56432262, 66437076, 1390406, 14184426, 97395295, 41230477, 32805479, 70312539,
   81753869, 33880236, 9898386, 9176754, 69810902, 93680239, 9739102, 42029060, 98351966, 32929545, 50806588, 39470790,
   77683604, 97444057, 18621034, 97435358, 72682028, 11303649, 83775887, 67086245, 10377126, 50156374, 3988838, 14374838,
   85464769, 82639704, 34294637, 41867200, 98629937, 22652438, 93144042, 28961049, 58075546, 12522956, 78945699, 89089314,
   52259717, 67177659, 86455767, 27033177, 78872644, 59761148, 76135368, 2117876, 91421796, 8744826, 39327988, 43707825,
   96588308, 1927784, 59871249, 62007139, 42110223, 72592826, 10366743, 99172725, 55923664, 7924534, 24005141, 35607866,
   23668775, 77592964, 19521544, 76693841, 1137489, 67353160, 32577967, 2881497, 21773685, 12197959, 31940851, 68466756,
   13367340, 8958216, 2641525, 64743693, 39633322, 18532856, 14475297, 14930102, 59508422, 98274500, 94414521, 68017748,
   16223066, 25142091, 64344508, 46904592, 23386974, 44596844, 25210093, 49286923, 85753280, 53394831, 82984098, 59442833,
   65858521, 56752410, 96205932, 41264074, 13035993, 38877786, 90272405, 27158681, 61881217, 42946627, 18667668, 33078071,
   20858269, 49672683, 41369385, 54997627, 25710082, 72132227, 44658342, 26064691, 49804923, 37840632, 59117194, 65137771,
   77785699, 14538777, 58418565, 34173806, 33582167, 92058948, 4800282, 82690722, 71076813, 50358199, 49834182, 48312864,
   72405894, 92129956, 19507555, 23311223, 82530338, 99554030, 89474709, 94098605, 15718928, 67425092, 42769352, 20949680,
   74230001, 62340376, 61995999, 40156753, 8241346, 61904086, 19227848, 22777149, 16979005, 53779655, 36095242, 20252700,
   45063586, 64554729, 26939956, 63373545, 98028374, 49873697, 16329824, 47661254, 37703903, 45386614, 86004497, 75206869,
   29926476, 80059253, 96237095, 16424893, 5779432, 49347101, 85319907, 49369696, 32258217, 1595430, 74682005, 64159275,
   32705705, 91503635, 88773869, 25067153, 38056040, 87559508, 85266627, 93328587, 63836347, 49505080, 83716043, 43479106,
   84577406, 89176020, 58494450, 31378697, 36633250, 36958725, 23463579, 48610809, 27117585, 90596018, 32723988, 29488273,
   49091173, 86294803, 27787251, 28897562, 83800219, 56036697, 73344686, 67255037, 4011236, 92990678, 46446134, 14430394,
   83403566, 36994791, 23814918, 92475435, 95748723, 22817729, 43708748, 71191513, 82612958, 79951489, 89343131, 10784224,
   79493781, 1041479, 59660774, 13376779, 5299315, 70729918, 99956994, 6820591, 13617060, 79627194, 73026930, 43524267,
   26665139, 57127870, 11156231, 90455005, 18634401, 50404623, 15408617, 73902203, 95017398, 88991804, 46729605, 24490373,
   79739145, 91581039, 97440810, 40374205, 11313304, 60745882, 32252682, 21771862, 67760523, 29130967, 18613548, 19390489,
   54709564, 5210233, 80091495, 44750453, 79118510, 15199138, 98672162, 9041646, 86932136, 92699056, 2656931, 35929945,
   21169466, 95547438, 55245021, 703385, 18980264, 88259265, 98640378, 42914152, 33646044, 72851573, 7826419, 96571511,
   65840641, 43147007, 27866511, 46522861, 28804221, 489888, 26112629, 49138718, 88448781, 97260543, 36191836, 25440993,
   7299133, 12385547, 29593396, 83385654, 23411624, 42524068, 23274532, 71222233, 2827, 97791096, 37876942, 86160590,
   69606922, 47126061, 23276399, 77000546, 7563787, 48307278, 51690858, 15666301, 33096570, 92674270, 94125400, 96486224,
   25171863, 70193546, 70394291, 12312496, 3891320, 43353817, 23096035, 18133806, 14412711, 67007824, 22459595, 97687668,
   44424106, 63938250, 18591077, 16592372, 72132443, 18482161, 68400950, 54143071, 47407381, 76129270, 13523845, 44097106,
   15679299, 94876021, 91604219, 88412131, 21523394, 49199216, 71669163, 97727979, 1966051, 25174045, 68695005, 71204787,
   88890666, 54592632, 44917201, 7089448, 61822826, 30020925, 61179882, 66373385, 57573918, 80653730, 22581590, 33552691,
   83477129, 28530862, 67552628, 6686589, 9462498, 19190491, 51053979, 78179505, 36826697, 23096570, 76502218, 39647550,
   92280510, 836005, 73782197, 58969232, 87031539, 79346725, 58226330, 48637821, 10657964, 4816688, 77639713, 10723062,
   8202112, 7710336, 36643841, 82739512, 24572046, 98331685, 39489135, 47594576, 78740405, 99237205, 21197539, 64511297,
   27176356, 74701853, 1044069, 83423392, 42437743, 74948588, 88717868, 87543073, 18257337, 88963807, 52746089, 14129621,
   95523236, 95918062, 65035045, 39242137, 1940399, 22321300, 51849433, 30142892, 9682490, 90112398, 32966839, 73199206,
   81502578, 48549080, 37017974, 41662991, 75224641, 91898037, 35631935, 77226857, 48009258, 21253254, 88562316, 45461891,
   86274186, 15119036, 39240505, 61520276, 25282685, 70882555, 20088203, 42035046, 48064995, 93045749, 58424759, 21557461,
   6875687, 8454631, 1530892, 54272908, 53880482, 85930949, 91185028, 92701468, 16535548, 92434413, 15322681, 32595491,
   36673657, 6551764, 96285916, 98955757, 84439314, 32318860, 27509426, 30893234, 86071599, 9380692, 22359085, 67768739,
   77049339, 76588006, 20028627, 26292056, 27958316, 37426136, 83785444, 91140290, 36379573, 23572405, 70550267, 67756399,
   77045481, 59133260, 81827879, 93538227, 42470364, 50606106, 78117276, 55567671, 78852631, 36598759, 92950345, 12818656,
   35806811, 81419918, 96332854, 94963125, 15833678, 3005733, 52386660, 10450788, 38915921, 21296070, 61098492, 55998811,
   75975830, 73697030, 39893574, 66881393, 55892527, 86611068, 85861782, 71509484, 84605185, 80264094, 85457284, 95571883,
   34110037, 3512944, 79287277, 25996710, 24637679, 71229301, 35038201, 20515778, 82931190, 54560184, 47325000, 72655816,
   27442236, 12172008, 5022768, 61124866, 87177228, 14840891, 94097818, 41350534, 9325368, 38139586, 82603560, 73781544,
   36131907, 20922318, 26262162, 25525517, 7538312, 12616857, 97191539, 10216925, 43053528, 60739514, 53537459, 16752679,
   46004823, 4127108, 98298897, 97415315, 67178307, 25206658, 86708036, 21992450, 51576815, 66499952, 32668545, 57228030,
   1224753, 5113531, 33342201, 73463915, 92232645, 48703427, 58144926, 32763435, 19093190, 41779165, 84165478, 14786280,
   61492872, 98656584, 35277059, 17139354, 19571139, 19531753, 65357200, 82313070, 19511173, 38500678, 86565437, 31058256,
   42393970, 27116853, 55071037, 69584366, 43783457, 40206651, 52799006, 16843858, 11316235, 84925611, 29613131, 90009374,
   94877456, 34591936, 78716480, 41741178, 64527351, 73092360, 2169942, 93003750, 16728101, 71720471, 65118078, 79733503,
   54649009, 34074976, 56496915, 26960613, 32593567, 2721183, 60709968, 94002878, 32268413, 43519649, 45964477, 16563649,
   11542250, 89782608, 60895079, 73986781, 7405878, 47085942, 82509588, 80823320, 44318107, 11924271, 84828743, 41102301,
   35639356, 59143197, 22980799, 4228074, 6585593, 51106076, 48926475, 93825243, 38643375, 32484776, 16546460, 90255462,
   56191610, 69730999, 46685215, 42463435, 22130232, 17002490, 29039665, 91939111, 20301532, 4161058, 85220902, 8054156,
   82166710, 57561070, 79978308, 77126429, 30788602, 4884765, 54799899, 15117070, 30117198, 13833949, 86454645, 2487744,
   40590904, 37054569, 62920491, 29145255, 15127739, 14678045, 36126490, 30796605, 75470977, 64894926, 50334682, 16703237,
   86405646, 23863772, 24549884, 53424327, 70257905, 43831104, 55372817, 2211565, 8866083, 2609112, 25774046, 15713845,
   68792877, 86354552, 22799237, 62192039, 39749187, 53424171, 87774064, 28541591, 81084511, 68142964, 87467206, 43416286,
   89144291, 38170103, 89577605, 87416073, 20072130, 57394171, 60204085, 21740191, 59168838, 97817368, 76252829, 30913145,
   57621119, 83512895, 58180625, 43715969, 19517614, 5125122, 22066068, 92780169, 5185955, 23483098, 23993211, 13413224,
   62352828, 94450097, 50464091, 11513747, 3919329, 17689217, 99674723, 23825774, 8440898, 24599986, 43108233, 42115317,
   64004164, 77304829, 8217210, 40594719, 41663249, 95604094, 28865093, 73045889, 40222378, 98739954, 77237607, 7207867,
   26098147, 86949012, 1236631, 85890618, 2557404, 17822814, 70606249, 41594755, 75576862, 67044245, 99746585, 83930318,
   23421809, 27830987, 26337949, 71670546, 17135844, 69331224, 13975387, 18461088, 88418446, 11026100, 57165207, 51283646,
   21797819, 60720042, 29316600, 78830575, 93146075, 75976447, 85698281, 82858875, 44547219, 72222985, 91200969, 96043260,
   75259732, 386957, 50069141, 47108976, 17695495, 41887384, 43857215, 47378646, 92818636, 69772056, 29564580, 49290822,
   9477105, 84560667, 93741623, 17250483, 73752757, 14352988, 9103619, 54529540, 42243260, 81359935, 52274607, 93274600,
   76247406, 79852023, 60434852, 13316965, 22811883, 21100257, 30880127, 53849894, 42032057, 77253526, 76332346, 93716393,
   75310790, 84122044, 45322544, 35114845, 33342880, 35579155, 81951798, 46358618, 92267737, 42251714, 97202217, 47625506,
   56011462, 22816906, 14642857, 79962084, 64806626, 73934988, 66113019, 66480864, 17939095, 84565894, 93097422, 14547128,
   57884281, 74970102, 34039657, 57622512, 30472899, 14425783, 89965020, 98168622, 36278591, 72560291, 28540228, 42827111,
   40765129, 53061885, 27054489, 50737987, 43243004, 12661883, 3069964, 82424092, 7651602, 92061670, 15757360, 49133015,
   82854502, 65755233, 26257808, 42637744, 2114753, 80288803, 16629771, 57547300, 90382488, 96627173, 13922187, 76148100,
   86602157, 68317601, 32713268, 92171976, 65233265, 3422890, 15806184, 90771476, 34682795, 98861135, 21836335, 94336443,
   42047158, 76124815, 30465970, 27592242, 50736351, 64036259, 82701235, 51952277, 18392794, 36139573, 1158230, 72660404,
   3148769, 12154719, 72604593, 59842891, 43182731, 42193516, 89804191, 74736421, 46059163, 62114997, 70454417, 35587124,
   13259028, 72931758, 54976639, 60763376, 56774135, 18293721, 65136458, 6291885, 2729659, 22617547, 52096042, 81229419,
   87916554, 25769993, 8711088, 3843680, 11833447, 36410536, 19254177, 64816519, 30362402, 15951742, 65804844, 23435506,
   72859876, 69920395, 86579843, 85784952, 32699600, 392026, 8668204, 49506986, 98571596, 20796204, 48750077, 41805692,
   35199439, 76275787, 59291883, 61337071, 76462402, 25004307, 61409826, 75506893, 33186917, 77970233, 59143775, 42105005,
   91894050, 42651732, 90833174, 39923192, 57715341, 7359836, 47884320, 88655286, 21801498, 35304299, 18382604, 12330450,
   97992761, 38405876, 72517940, 68225856, 48289532, 83815529, 88982133, 28225751, 55603912, 4908504, 3101664, 89566574,
   61587583, 76698644, 5050797, 10335565, 5445130, 83522291, 96070307, 45084123, 37261333, 35413613, 15079221, 57951798,
   28112786, 55751002, 46510336, 12275067, 68410533, 52563233, 76324885, 87350457, 33180460, 24378856, 12659028, 45755890,
   96104569, 93906071, 44585951, 69571269, 1945001, 14786770, 91135245, 75458036, 2785922, 56021924, 27302132, 2745768,
   48188761, 30055085, 93973626, 85114273, 51622159, 82747122, 94467566, 8704693, 83863017, 96749842, 45744542, 83362861,
   98821951, 45157965, 79890329, 87383280, 3175577, 60046168, 47057801, 13218238, 55616313, 56664479, 73645493, 95331914,
   24465713, 53252541, 54022984, 83229467, 18790441, 17978070, 51353115, 91697761, 62479252, 54463420, 67585968, 79201380,
   62637356, 46047641, 73044387, 53125009, 36803763, 40804616, 28716693, 65576330, 81924535, 5454838, 75732296, 37862808,
   13250777, 16229207, 22165521, 88790073, 79243063, 93037123, 86142749, 95955636, 52881402, 50434540, 66307202, 87336176,
   86980030, 89933998, 44155190, 75410925, 14150637, 31034968, 91193082, 73664461, 5910277, 35976330, 40066840, 17427385,
   87587958, 77760604, 26740433, 44860563, 1475202, 62093333, 43138633, 72854650, 37391490, 9992108, 9963167, 5914821,
   11599447, 44654895, 21292862, 52937259, 880627, 61260146, 30189886, 30829817, 92491982, 17190135, 46982671, 75613746,
   28362116, 98842895, 81576144, 74622121, 40937672, 44006977, 22200633, 64497908, 42926315, 64146560, 94338404, 92457501,
   59479114, 83132507, 48003969, 95791140, 16322603, 56082981, 82627327, 78589040, 79131685, 57828915, 57725673, 71570331,
   57799490, 90719977, 98359212, 5907789, 58932470, 86606315, 47539455, 95108166, 39684842, 19812452, 48969221, 60069100,
   55975362, 49192585, 54258178, 8956584, 40997750, 96503982, 29017621, 15184003, 12777880, 48230038, 87295529, 45003706,
   35448165, 70471228, 15243348, 39339524, 25462813, 21049978, 84617672, 11955036, 47964667, 18205599, 93386787, 9746587,
   58300505, 68345068, 30233667, 56322297, 33662614, 12059737, 62287293, 37377937, 76247772, 15138412, 61215475, 33787842,
   59187244, 54963626, 31232884, 82695108, 34526602, 18839353, 55077925, 81234714, 97677010, 21465074, 45829966, 17753132,
   10053627, 64080127, 27692941, 53743308, 14977146, 76031230, 58454467, 31866908, 8022127, 74381600, 13911228, 33241607,
   89217603, 98295021, 1050508, 81186450, 36583460, 42479568, 77092487, 63066583, 33460417, 26973534, 31789561, 41201315,
   92091434, 94087195, 57471881, 7069880, 1721585, 11022488, 60518933, 11954810, 69274633, 93231183, 6331944, 31386996,
   10541949, 94603563, 82331122, 9721077, 76019296, 30796853, 3779713, 3283962, 50562663, 28860136, 1767882, 37785150,
   18381280, 17838037, 50091999, 59095604, 29429549, 268127, 87493185, 68487580, 88981339, 32805302, 28746086, 47137030,
   82938379, 63154610, 49298747, 2773164, 42436889, 85632044, 36589199, 24769500, 95985722, 57285994, 59388817, 44679324,
   79245621, 54932467, 25915807, 95884272, 19495585, 78676748, 17971128, 4628146, 83094150, 262385, 72807568, 37841388,
   40617071, 30428297, 27963906, 12153617, 13029454, 98814967, 9351302, 14070809, 7351418, 9989748, 17115396, 49683553,
   69610318, 92653959, 6100787, 68256717, 79690083, 60765710, 51869899, 56511050, 45272320, 88403534, 60594247, 75359880,
   84882388, 97451499, 94333153, 99542155, 87556906, 54754698, 83205225, 13497367, 53984949, 24322374, 87877742, 41050005,
   39323672, 87675825, 11148122, 66607302, 68487710, 89245796, 67939442, 56937470, 40682092, 74135574, 19221100, 91492075,
   47544320, 80942471, 7914789, 29646039, 67193367, 89561999, 14282951, 25727185, 97683648, 96072743, 40677628, 56616883,
   16408089, 17611064, 53648726, 55748467, 82481278, 27369201, 61962810, 26777225, 59467404, 15044732, 55144139, 59008825,
   9647045, 39299086, 43141215, 76084549, 71262205, 97547055, 77692250, 2906593, 57395862, 95719068, 30741048, 82268854,
   83963253, 15239707, 8499359, 57382490, 25038943, 16245125, 79371653, 88939984, 3767602, 81265197, 54305997, 31857665,
   84162212, 94355144, 96186819, 8418678, 81957749, 55086008, 63008427, 58516987, 54310545, 38015018, 16375887, 91041710,
   54127221, 90161664, 4767435, 2418240, 63880869, 90521351, 69582647, 97635339, 5715396, 63415604, 52465431, 94282580,
   76574721, 53868967, 27452914, 36872052, 1503535, 77419955, 21525733, 17323826, 47692127, 32169134, 34587594, 28583974,
   42141071, 11647983, 11217160, 52633725, 30914104, 4828505, 4762161, 68370082, 45466621, 62882417, 17235907, 18039317,
   89939762, 14300535, 45727877, 99779170, 48666280, 55879184, 21416792, 8352541, 20450772, 87854990, 40734192, 47104286,
   94830883, 75502752, 88662436, 10865542, 19824800, 79274915, 23490890, 29226302, 15611609, 73464673, 70049323, 98310460,
   98583782, 6522752, 28193017, 38260621, 78770705, 94181304, 85619516, 58987124, 40086941, 15813907, 18539572, 31190335,
   77737668, 55698985, 14923817, 87181656, 39272854, 34357856, 31638828, 73953139, 88345943, 18385722, 62329215, 7090707,
   54820450, 4322517, 49214779, 53428988, 42383660, 32483799, 21936014, 5070997, 48045741, 21137278, 63865883, 95122726,
   96627870, 38705548, 67571128, 41355867, 34270783, 37431054, 39156768, 42514613, 74710960, 55910734, 95366088, 12355523,
   97214403, 55628682, 313235, 36078443, 66636300, 84805336, 6100012, 73692265, 92515894, 36963185, 39848700, 36641024,
   54708472, 48684018, 93386908, 94600862, 43112092, 12090915, 87172535, 7995647, 28177189, 15670930, 79297247, 71822349,
   81560968, 37039488, 776382, 19954418, 18275275, 78115528, 47159191, 47810748, 81353001, 93177658, 95096636, 90429135,
   78675906, 27791235, 69225691, 24688689, 55088518, 97614686, 67617831, 7682954, 23951405, 71051941, 16677469, 46389653,
   69226548, 75291160, 79637280, 29672001, 23035014, 50726641, 34025831, 65463275, 81865744, 46439476, 56237269, 97494110,
   19404227, 40262733, 95492818, 30886178, 24182246, 21447167, 90282069, 8904255, 333157, 15466158, 29972896, 34777330,
   99292500, 96685812, 91007440, 67314844, 19790192, 93786892, 15491607, 35534284, 95193283, 27500219, 95470884, 99930954,
   64041105, 2821669, 89488205, 93125475, 80816107, 95162868, 71999630, 75501919, 94989211, 44560297, 45866061, 49096541,
   16574914, 98113215, 51389777, 22746025, 11804753, 68866095, 73695979, 99209919, 81629503, 47862344, 63407692, 4993735,
   98305612, 52360923, 59884291, 9883789, 61777861, 82656249, 62540761, 91935767, 83895562, 26669738, 48389481, 53002137,
   58276701, 91238382, 37210983, 35102631, 30448662, 20450225, 53860456, 23216494, 25006940, 41884047, 5501616, 38383541,
   90542273, 82827218, 2834144, 8050366, 90766509, 50535080, 12474813, 82351737, 19894318, 79264751, 45335087, 57985369,
   36556195, 57856116, 99001289, 15385550, 93447364, 79982716, 67924924, 60379832, 6024134, 38299220, 64923119, 19824654,
   29711459, 54445870, 51776168, 33185732, 63909997, 17477942, 72812679, 5221833, 43682517, 35830849, 67737804, 46921663,
   31343966, 91475740, 81104563, 49379984, 60530474, 84328780, 60184308, 13984993, 76755911, 89047521, 44990990, 27728891,
   3128014, 51784444, 88123363, 80226504, 79216134, 93341022, 68730902, 21091707, 49123880, 55939021, 85106947, 60713582,
   17780932, 81865825, 86949617, 27926647, 2804134, 8317041, 81329183, 83662395, 68700419, 47609836, 51239596, 99630109,
   30191294, 18125939, 18327473, 25305113, 23395681, 77440847, 13580864, 28148260, 45073927, 26358269, 14643900, 33098507,
   92255317, 98866972, 98081743, 91294300, 63967869, 68945846, 33524482, 17295281, 78387395, 7536907, 82440192, 93896903,
   40212971, 38519995, 73935717, 62405443, 43486922, 6268210, 84665600, 48937312, 16828628, 98919814, 99291137, 39327341,
   44084020, 90628227, 84152077, 46221650, 44072392, 79856412, 14739023, 31705782, 72627758, 77250099, 39541786, 15564716,
   45307427, 65507126, 80272670, 35322122, 19142641, 11830792, 92637970, 28874419, 40917464, 53403678, 63775984, 42521525,
   77566153, 77746525, 2722281, 58576607, 62619242, 77693350, 6019417, 74910106, 47992822, 11998408, 12812318, 32712546,
   14601624, 52607475, 50012299, 92846443, 52076015, 76736100, 84669757, 27076130, 85256917, 12596629, 47568184, 52233443,
   21927090, 69821764, 96313066, 69170964, 80143680, 43123748, 91635241, 79294211, 57797177, 49015142, 72367709, 24379395,
   1380012, 35581922, 53953123, 91018265, 26338790, 15047962, 1903056, 40731042, 43807973, 70758848, 86094651, 32474925,
   1675964, 22839581, 70417469, 75168238, 47084932, 9992641, 36742865, 83259970, 58403065, 39317284, 33148094, 4273082,
   84307871, 61106428, 23723007, 24458094, 81653310, 727541, 44888760, 46352505, 69146900, 37064117, 50214045, 51092738,
   40702810, 63673375, 30373216, 20766971, 9717381, 76481707, 93441023, 50666473, 39958109, 86259762, 38150382, 73631763,
   67420840, 50123203, 57170303, 59849970, 89811511, 3359728, 16363958, 18973262, 41204762, 4258687, 88149476, 46912115,
   81425841, 27739904, 96644126, 65770940, 71806367, 11340883, 85723739, 94088027, 73620478, 98039856, 98011746, 65538755,
   88523698, 80659387, 48568305, 73174616, 53407267, 2057626, 30890982, 15834812, 41312126, 86494952, 12120696, 45234828,
   50378207, 95939782, 46087082, 68953991, 83407402, 53475461, 85473037, 30590849, 82138907, 24177649, 74373710, 74676347,
   43547427, 30976349, 25454413, 97141883, 26664656, 83943170, 72685336, 42704872, 94345614, 59499734, 42982863, 32460073,
   52707665, 14190207, 59023508, 72197364, 79434123, 33779675, 90025937, 85153394, 61021284, 77155691, 30213195, 77253970,
   43186824, 86185965, 92972540, 1045499, 68025905, 58870357, 93855956, 58926430, 29532084, 54923425, 31918980, 33451008,
   80632892, 27806476, 36834039, 15528793, 87536399, 1995216, 98415206, 60887031, 33830089, 9068795, 44482070, 45144856,
   3343584, 24606854, 38445502, 15415490, 28554266, 98555787, 25791349, 36048359, 99984767, 93931621, 3949119, 47539361,
   60505822, 14820258, 83190139, 18896142, 54184689, 14097311, 60590573, 3120551, 7777269, 11735615, 91249897, 43645915,
   5950099, 27783892, 33184042, 69045289, 97358118, 452896, 51567920, 97819346, 80930130, 799518, 33803179, 81819389,
   99719494, 47606521, 74319932, 95045315, 90308547, 93112671, 3745073, 40246890, 16375541, 89696573, 796455, 18202227,
   26128373, 37217947, 94683035, 29777973, 13497505, 97171481, 71003785, 28081665, 74942238, 87923825, 61868697, 3108817,
   22920706, 14474963, 9637520, 95297512, 17292988, 1888891, 80659581, 79818412, 39246995, 39938901, 88350051, 83767521,
   4446359, 79019919, 4683026, 15188120, 34001096, 64973202, 18594055, 82560231, 33852097, 24300155, 47253464, 54608279,
   43457238, 38581715, 32714163, 58820466, 10757780, 43403623, 76045894, 4495961, 28497889, 66824737, 98868332, 67426932,
   94087776, 71041532, 10276386, 20818807, 80212814, 137127, 11370643, 74869540, 21987092, 382007, 46470469, 98318568,
   42680423, 80716671, 16266253, 44995240, 51140185, 41774472, 18252223, 12239289, 1781951, 36573117, 89931443, 38168421,
   89969971, 13820396, 34050849, 70556072, 4151088, 94634189, 62539004, 17933851, 24566439, 930417, 60023441, 76353235,
   31368044, 50674988, 81437625, 27983445, 76433162, 77746027, 87170533, 3323576, 43579284, 63184133, 71425774, 31770014,
   33163101, 98808043, 17954302, 71981115, 5975405, 93007532, 39394884, 56745371, 55727174, 73170852, 53245448, 73847437,
   23919818, 79482219, 82454818, 64573932, 40729156, 18503606, 4998763, 18868171, 99398763, 41810257, 23634900, 98302279,
   23881861, 20447906, 65674508, 64287587, 65732458, 35576639, 13461395, 67455703, 22981840, 77224321, 35146155, 42590481,
   10032155, 59386061, 8041849, 92360886, 64776962, 21737330, 3665209, 65977313, 90028279, 31602078, 68831597, 32959182,
   29293901, 12629709, 55915198, 15184888, 29070843, 5076533, 46866286, 273972, 38948153, 99023146, 41200790, 51848795,
   73015253, 69630777, 46589746, 8907128, 13302801, 44389964, 31411080, 17968375, 5354174, 62873762, 2349771, 73849176,
   99847580, 97884246, 19962190, 5869188, 30289749, 89542690, 56270997, 2465024, 68707884, 186771, 9579563, 90010614,
   61466099, 95319769, 55746937, 27503960, 6446874, 46518764, 52172055, 97020146, 46150481, 78609441, 62744989, 18306756,
   36207605, 3123924, 52474153, 57391113, 76665401, 46144583, 55424243, 86101763, 50714328, 34188244, 10429353, 59432050,
   83166084, 17986146, 2033987, 81381697, 59918287, 82349563, 18463444, 27718643, 60589753, 43145761, 5597230, 64474048,
   97914758, 54909081, 64830687, 61960209, 91176062, 87631399, 39542297, 52337243, 38411148, 33015461, 75946909, 19433162,
   37474661, 91907956, 57106517, 4068888, 10535702, 9384291, 25817418, 10860626, 51500521, 94859976, 25473353, 77522057,
   16595851, 66397188, 86762677, 80327484, 26230959, 55809988, 91264086, 21132004, 60956488, 60006001, 80733951, 40011150,
   97961407, 38630866, 60139992, 7922277, 82412039, 26565030, 95566987, 15298181, 70429612, 41400650, 81756506, 75617320,
   15442971, 8248425, 45366382, 36011749, 1354240, 84358397, 12049660, 43867114, 37598749, 16486019, 73730545, 94686259,
   76205858, 22462709, 10295900, 37693477, 50187563, 8679750, 21309749, 92186795, 37354289, 5152008, 97569008, 48473298,
   52283790, 77516678, 82863637, 44253820, 99140818, 68838108, 13302861, 44951082, 28904431, 90803592, 73746573, 97418264,
   531816, 3239931, 14193101, 29525787, 92374185, 17902728, 28885924, 98148698, 78793548, 47615784, 74182329, 98325187,
   57013376, 99317030, 11333324, 1926334, 60751841, 69351901, 93107520, 10116363, 96666136, 34418541, 80585023, 43766897,
   8389380, 73817523, 95453383, 32092236, 16652699, 7617602, 50923368, 5434865, 81889009, 41702190, 78022834, 78617680,
   50699700, 43852935, 46079812, 46905264, 61198994, 97296844, 5909848, 80102024, 50919740, 28145099, 84910763, 77506405,
   8272862, 54118570, 28955757, 84420592, 17779701, 90365384, 72831402, 97202069, 13080328, 28278609, 20554826, 93749321,
   60326672, 3081, 7271450, 92253634, 25153846, 60885838, 341706, 74174331, 3116781, 20337622, 3381098, 27122585,
   31307248, 18857208, 10644670, 67051501, 68343737, 90120326, 68563907, 73632846, 69142323, 85403032, 25936585, 96171009,
   2324824, 15895936, 3532708, 40811260, 70288474, 56114702, 30261364, 28764200, 62651921, 20578854, 5595039, 89435970,
   68208856, 20187930, 87882273, 91213554, 78218227, 22033397, 85935225, 18492503, 89190618, 58351396, 9229461, 83629701,
   14621736, 16553953, 32486583, 74158293, 12277938, 79125002, 559147, 6329975, 57245553, 83805964, 41301956, 50101207,
   65209323, 63871723, 45339045, 78313516, 8521001, 94822923, 262958, 42623404, 58787391, 3755624, 13810911, 65330712,
   96081180, 41825258, 71885438, 52007513, 56920, 88650911, 83317617, 68317279, 65132733, 19838026, 65647768, 39590429,
   62058848, 31758745, 53145230, 74330506, 99700461, 94738740, 92963993, 27400065, 17721402, 15162943, 39215625, 89127520,
   14685309, 81875570, 42425816, 97925367, 69514222, 47288158, 8225489, 72295419, 26294560, 3390974, 98233264, 41294796,
   23445580, 74428690, 16951854, 35699682, 36115876, 17413531, 84249634, 40396606, 66459788, 39778496, 30515875, 15138673,
   65070076, 30547700, 87514473, 76289168, 42836366, 71139585, 52201692, 2235886, 75199589, 9003061, 67290888, 58456726,
   43717325, 59952627, 53434680, 67330574, 86786785, 69499256, 82011990, 64674084, 90062279, 61086251, 84374046, 29269705,
   42286674, 54034528, 77517627, 52273453, 5638821, 48433962, 16167580, 10848803, 69097655, 27517241, 24384331, 24383731,
   38861433, 12803770, 62679920, 53700817, 20293038, 4284282, 25971427, 85264049, 2327629, 19336518, 44445762, 68661186,
   34827352, 54991524, 93395726, 39738086, 29200154, 5669651, 72899448, 67084206, 72621758, 5241608, 86579937, 47783704,
   73817768, 91391733, 21658090, 46590440, 19049512, 50044803, 81734077, 26865341, 48871237, 48699571, 16063441, 9596664,
   57495125, 38065393, 87102476, 34900873, 1244619, 58365283, 71414425, 57190739, 70595763, 45270748, 97275030, 93894721,
   97144294, 89443592, 77150496, 28704362, 56537194, 28947437, 81232584, 810449, 73825356, 51373748, 34876401, 13382513,
   36578929, 74000458, 13905409, 95446826, 37328970, 82330554, 89318224, 13704662, 30463887, 91707891, 18247882, 80886416,
   83211022, 82819386, 89756108, 16347736, 61719506, 75878899, 91541094, 64742316, 36313136, 10646560, 98041678, 61045881,
   76253527, 72227977, 7353836, 82151993, 33909999, 69583168, 36566682, 50592754, 37259151, 49131565, 2025209, 11005241,
   72495087, 34181475, 25848487, 28164282, 91751853, 39353425, 22102126, 85164104, 10809058, 66559686, 33636747, 37800794,
   88304216, 43435783, 59549020, 10607296, 8008138, 80350525, 31199375, 13806129, 65039947, 94247886, 63592980, 22477418,
   52434983, 80126593, 72431973, 39097167, 96722097, 3823318, 35036228, 36564661, 51104764, 75337295, 81956472, 46799828,
   30413889, 39948198, 29461182, 14375667, 81552817, 36980614, 17635790, 96948015, 95103630, 10718495, 7110697, 6182850,
   19720129, 97091549, 360284, 17799160, 66314220, 36217327, 74801342, 87426447, 75578318, 41280033, 96153475, 84559835,
   57350910, 66254601, 19267345, 91844835, 47964035, 19926997, 58282895, 69132230, 91781971, 5972583, 28030559, 54950764,
   93513713, 54514289, 83188854, 8440533, 83405532, 74900066, 45402866, 98152728, 60735294, 10025821, 25255434, 76793477,
   71597297, 6363622, 40085220, 50560755, 69388409, 35124822, 54671092, 90341782, 88025526, 1849780, 14784378, 74737032,
   18464113, 36132599, 79473590, 36630357, 48763326, 29107281, 98994767, 82170448, 28994031, 57384458, 40556265, 61765696,
   16350842, 96201064, 28732167, 79299840, 49694737, 97940032, 28454058, 35488458, 81624975, 98899288, 26658638, 23375912,
   31403132, 79095714, 48284439, 82700592, 24519991, 32943363, 73652834, 30368115, 49608362, 10377215, 84534184, 35129546,
   40515512, 84860593, 99006903, 36114781, 26135951, 29997570, 10371222, 20171570, 83569632, 19737279, 89081222, 76747742,
   57068305, 60697392, 68918137, 50572644, 73024944, 60731310, 52533430, 70616460, 55512625, 60150698, 29698017, 75070542,
   95286936, 562716, 44651759, 4784141, 16120952, 72407990, 48665985, 27809012, 53998050, 97073699, 41587657, 46390169,
   20431783, 61310177, 24779025, 68595770, 58432317, 1825119, 65196329, 13209990, 53808703, 38286814, 71411168, 98956240,
   62682640, 57019571, 31998182, 19052350, 78877762, 40718961, 44392315, 98145179, 49315259, 90380607, 7750632, 37410496,
   39101009, 82311055, 12042287, 65746059, 51710950, 49581150, 15771407, 77630334, 96861290, 58402415, 48414145, 87792698,
   52177528, 9708825, 31497873, 67930636, 10756836, 38950650, 76678042, 34610652, 46152920, 47232496, 29197533, 85948926,
   41532579, 33201618, 95333802, 46638942, 54766565, 74672145, 3982925, 34283867, 25451186, 57523315, 24440448, 37095655,
   22566169, 53004235, 85502523, 90223630, 73955161, 73051852, 18300525, 90823712, 76433942, 27162392, 75315964, 94821109,
   92160994, 3010466, 41359939, 7254274, 21919518, 16066278, 12381725, 10342189, 45064112, 44698111, 56513413, 89701030,
   61924775, 15807190, 5284082, 92179460, 98384823, 42328443, 37925257, 77878095, 42976052, 56675100, 87253101, 96546472,
   89079574, 74199398, 29617149, 97461314, 41372831, 5247174, 32388341, 40795219, 33737508, 10741781, 51822507, 41421753,
   79084114, 64184875, 4356441, 59432550, 33774393, 99345242, 97990977, 5842306, 65035551, 59657418, 60670804, 83300130,
   37172524, 18224188, 10053615, 99125753, 50126318, 10489436, 4149684, 38866826, 68438349, 39684468, 79481018, 63328190,
   72849117, 97743189, 2447819, 40813245, 7419319, 24071707, 52301210, 23368042, 2647124, 17971742, 81994449, 43780831,
   36516026, 73068588, 464645, 97432728, 32413432, 68285405, 82065585, 39219535, 12459613, 19846200, 70686168, 92322577,
   59396666, 1939471, 35121141, 47160728, 59468744, 59429210, 27693789, 24202310, 8550828, 9626096, 15795838, 81693245,
   22768623, 39403276, 53927868, 60978041, 91937472, 23580383, 51674524, 91688756, 64288977, 64164270, 74734768, 72164914,
   80094648, 86859098, 862051, 86856907, 41594475, 88018632, 95570508, 28445933, 36078263, 33012566, 73241966, 75088074,
   39528321, 80177003, 14235602, 70142210, 21516921, 96708894, 23035160, 39029294, 1083595, 37043932, 41191652, 67494014,
   65559423, 42908973, 96184362, 47466091, 1215244, 35119341, 4849362, 86442602, 18437000, 62956871, 84459663, 1405139,
   94777517, 81445513, 74584286, 20279715, 66470769, 91837036, 7254633, 70325025, 6795814, 96130314, 42353226, 46096728,
   52289641, 67301435, 5565287, 6554107, 64378177, 56260452, 95260095, 42649357, 76922720, 1129467, 85615019, 19764482,
   53385536, 52066144, 68124740, 49522603, 6111566, 5775800, 70133349, 15942443, 74374272, 51343049, 19646825, 69662127,
   79567793, 39665932, 53337856, 42610940, 92601546, 11854344, 73453993, 5356156, 40041112, 28178740, 1227478, 91492787,
   72186008, 30580242, 52989817, 34667389, 33863752, 2587773, 85223063, 59514394, 81360195, 39718773, 47951989, 33079539,
   44847926, 13158957, 11043393, 69822635, 67336494, 86009545, 32753226, 72715048, 54905764, 43844645, 13649993, 74191156,
   21235702, 8270227, 75337154, 42004876, 77950608, 26628062, 51317548, 6421260, 7262868, 68359794, 38275170, 80265399,
   739096, 15977081, 97723984, 17893865, 91549708, 79622584, 84902148, 47079571, 73253612, 29801780, 65451332, 65547902,
   8172031, 56527373, 36947976, 84893049, 75709998, 90111566, 59445782, 62855890, 25846, 73229450, 65118177, 27141418,
   34401703, 89820637, 91455097, 12681414, 72645378, 30617778, 68277353, 63826557, 92675213, 43680299, 9668678, 95594591,
   69298876, 11297791, 44148282, 72429617, 47218615, 66443975, 37572546, 30293712, 98315838, 4374369, 33194241, 83952995,
   13874918, 52558237, 79170517, 28138456, 60522474, 38514527, 98693369, 64304433, 77112169, 7822739, 4030116, 79385324,
   82535834, 4267786, 77492300, 50559110, 51549391, 5177513, 2030098, 85975903, 2635197, 67685569, 96769758, 22415006,
   52916362, 71618600, 41641888, 69607452, 66098910, 10177299, 25482991, 27054974, 42404839, 48509838, 50789568, 81424015,
   61628557, 79327810, 30045533, 24394531, 40769932, 5254285, 54908384, 48357489, 72349617, 64700301, 37842190, 75101748,
   23874321, 5352327, 7327694, 33256402, 88578775, 5909586, 91995332, 99526765, 49343961, 68926909, 40255899, 50690305,
   20148348, 76902745, 66361528, 18541943, 97430929, 74829309, 82979613, 83736577, 41791734, 26752613, 44344279, 43083483,
   86610891, 4951283, 74639554, 87175079, 92231465, 82032105, 23574237, 46187649, 11973445, 52604023, 95420627, 95067491,
   83494136, 45974864, 37036873, 55837792, 33078811, 34691244, 14957299, 27722994, 52226890, 78586089, 46537874, 75704058,
   90954547, 99770230, 5391447, 1249451, 23966561, 71784069, 86607703, 17558657, 25638346, 55508822, 2748920, 97909760,
   45052001, 66561666, 83589594, 77541903, 85122450, 56610333, 87947503, 36159138, 98736412, 24211956, 8517304, 27205057,
   14720501, 56229079, 14501009, 78546089, 59033326, 32065782, 14341630, 75603025, 81818447, 53035523, 52885103, 51048175,
   62950254, 82095550, 64769560, 25064527, 33537401, 6139995, 72093323, 95927443, 33095103, 37918237, 47786825, 39895806,
   54578087, 1493916, 56113424, 5264404, 86914641, 7313809, 55900162, 98012378, 72622432, 98259955, 31316665, 83807771,
   28554369, 22479640, 84973203, 1077484, 46407927, 63189865, 78029893, 98871425, 6793749, 16047924, 75218196, 89363574,
   62899833, 63723681, 68375708, 71935, 90992760, 52068753, 74901766, 78584076, 29644829, 27393593, 41729278, 5485223,
   54806328, 35607821, 40363160, 99185046, 64313675, 68383222, 21769256, 70232597, 89711506, 47674173, 89020956, 67681885,
   21946198, 97860711, 70611903, 93653794, 8118656, 25351642, 58079565, 81598252, 17545290, 86357907, 48897767, 90403795,
   72951325, 16137894, 33641069, 54392201, 66354029, 7004403, 57007519, 88539609, 82988694, 93822667, 40019173, 3314707,
   66169557, 67832091, 74687491, 82999467, 1646672, 91975216, 466278, 6628481, 2081475, 14269363, 8329881, 91712165,
   34365653, 38695794, 28945146, 46465101, 78274426, 908887, 26247769, 58442659, 47770057, 91928274, 91786854, 60516878,
   80360759, 3296976, 94988811, 49071264, 97382044, 10963912, 94148105, 57009077, 21072351, 76333057, 25380202, 46491874,
   92285837, 75168606, 10768037, 85005857, 78052450, 68858879, 12702967, 20930602, 62386619, 24200360, 23003739, 8824223,
   48253053, 98133028, 95772788, 65410426, 60462349, 89106953, 33602848, 80718942, 93432993, 95872662, 69939011, 22251466,
   69565111, 52751380, 9368080, 30918696, 80485996, 53542024, 64451051, 75170988, 19003444, 87571608, 72336944, 63485417,
   13197636, 59749521, 36097127, 54053504, 32843222, 36078616, 2857942, 28416220, 84455692, 67150518, 87000194, 86723349,
   6193380, 35596420, 70797853, 89266493, 34549782, 44158185, 89781966, 581515, 39583994, 69055420, 82586268, 18008337,
   14104827, 6822079, 74431562, 74388111, 92108491, 86401900, 44393284, 50717227, 13288366, 95726896, 80599829, 38205651,
   35251486, 45985537, 33771089, 15079314, 54526737, 33649204, 19589035, 1207137, 9988446, 96911140, 91058926, 34969751,
   49689441, 86706484, 15282011, 53946954, 43712183, 30085412, 35789995, 679978, 24876633, 41084035, 99619315, 45405476,
   37415727, 49792792, 44133049, 2805185, 46591636, 28819296, 15972191, 99849317, 46226125, 13852085, 89718756, 81872432,
   81379929, 56228382, 50968424, 84469999, 59571300, 23334947, 82791449, 33106227, 26276939, 31811948, 45071300, 58605944,
   18226439, 96984063, 65373458, 37718075, 32631462, 87400938, 76283665, 53446258, 12376820, 18579947, 11473118, 77416216,
   71885697, 11619073, 6793308, 32888321, 90943554, 32671711, 85432157, 27155251, 25574825, 62287086, 54356964, 60057138,
   41069339, 2382528, 51106788, 45599182, 39110053, 56386958, 39033272, 13291819, 12614093, 50739379, 87343339, 75614326,
   58978956, 30051345, 59408434, 68113624, 66821256, 72855685, 43850890, 85022640, 42204315, 32993737, 37472909, 47622790,
   25901556, 96937826, 9952172, 63410397, 60998701, 21096679, 39881004, 53720879, 71787848, 59892873, 49220305, 88383744,
   60625215, 58027172, 15454812, 73036271, 53434023, 1913013, 87952720, 16944706, 95660523, 15576137, 43259759, 89151604,
   74112571, 80386190, 82622726, 79730175, 37540681, 14750338, 50216112, 75766695, 62529804, 11329935, 54519718, 95395093,
   69187671, 30244431, 75801019, 74515337, 59358033, 97041666, 62815706, 4656709, 34488789, 92018205, 11170239, 19011577,
   34963389, 82692072, 48600590, 38336687, 47210600, 23528678, 11820039, 71222831, 89556125, 65152282, 77863343, 22269674,
   75199799, 88025206, 11628545, 18138015, 83867242, 95096193, 47776947, 63617487, 31667628, 31595714, 81425975, 93231914,
   8236086, 92490836, 35305033, 36070694, 21711087, 63604023, 12783871, 66775583, 44719897, 64411303, 86821819, 8190351,
   3370860, 44419825, 67467349, 81694352, 3015747, 39926463, 99962640, 74604273, 72981807, 90842851, 85388245, 87332206,
   2925070, 51613616, 42865167, 84482112, 32788137, 2399338, 61795151, 14764986, 44861171, 39054919, 91312321, 8387321,
   80058486, 68495456, 20063000, 1314589, 91293297, 55564905, 97085351, 66798185, 77107079, 27590723, 37349948, 7212324,
   88494030, 84287487, 79435095, 33721503, 3798568, 35107255, 23039351, 68080298, 8701099, 30331400, 76622348, 50757842,
   76054891, 8745225, 97266852, 84730991, 13055365, 32071007, 97678163, 57382592, 44680041, 93684692, 90136823, 30257094,
   44804536, 18487257, 57352377, 91107620, 16172781, 72504256, 92162257, 32540323, 59478216, 64174734, 15564002, 33757396,
   31598191, 97663647, 91958682, 14382804, 96874388, 63066443, 50113898, 39435458, 15348885, 71775594, 269054, 47324592,
   55837991, 1413689, 30822483, 37149731, 10571297, 9873484, 14596334, 83025664, 98145932, 67365363, 24926495, 4105179,
   92464044, 91948014, 32598829, 5783168, 79200155, 99713263, 909643, 9661611, 79534298, 62517646, 55605008, 92546153,
   42638048, 4940677, 78577812, 35559449, 98253119, 11373987, 89750104, 91647248, 30288171, 3099449, 29131093, 50887875,
   20556170, 41307559, 66385082, 82557424, 55259831, 25445500, 21628522, 58285910, 9283190, 21755279, 56799701, 99300471,
   44957202, 38019816, 4818431, 48841701, 13813210, 85495734, 5684484, 87594077, 47754722, 55099357, 36989593, 90462806,
   14183810, 20089377, 21936949, 22827470, 90366531, 83990753, 48593669, 60979403, 77492398, 51991816, 14210849, 62539102,
   73400091, 40163164, 98098132, 4862711, 64173326, 16934622, 72426572, 92159122, 1451403, 4063467, 77979112, 85984742,
   61739706, 45656446, 90388858, 16899945, 71607262, 53913000, 47875835, 39376657, 48576491, 69603548, 69823921, 17724530,
   67583074, 33672684, 63175906, 90201524, 14729715, 5209342, 57417328, 69997115, 58300742, 5605987, 99436102, 68904411,
   30165081, 32821293, 29332124, 38943294, 73686586, 28340575, 61977027, 58722871, 62833440, 81432777, 96074210, 2450222,
   9175245, 84103486, 86419303, 54980926, 93123178, 92430310, 75741580, 98728971, 88844574, 33749642, 53943316, 73038855,
   49309037, 55037359, 51248695, 43169492, 58877262, 59300065, 31247177, 58376970, 4001274, 83269274, 21920610, 67050720,
   28435558, 25026219, 40193174, 3621419, 21189313, 7443026, 79074013, 46060376, 51283306, 59354142, 91809461, 69597531,
   83870100, 47720529, 84067422, 69520682, 45371806, 66884223, 39116372, 12614980, 40334562, 49429638, 36444775, 57071059,
   49381915, 46838103, 49550926, 69422692, 91188125, 92047852, 60188194, 76136837, 47911038, 81661822, 14425621, 97421700,
   14026302, 61609847, 9814885, 38695892, 67650335, 6504254, 7315523, 73366952, 23152023, 96367581, 31389367, 51243531,
   13453490, 77151374, 5952834, 51482078, 5579004, 14379901, 30991977, 96712072, 60374659, 22911620, 41960379, 40525916,
   744802, 29019848, 82617191, 62712109, 31818778, 57643233, 88610641, 17075138, 24268501, 7038061, 88321609, 46335604,
   23955899, 23854663, 57507827, 75174639, 71957753, 89716437, 85239933, 89831677, 52897121, 30841393, 25339548, 25782281,
   3166925, 76450767, 45626693, 64460290, 32381379, 126062, 76856134, 73456323, 46659517, 66636700, 24595825, 81375889,
   44429501, 49150315, 42824757, 64653409, 55197817, 65736150, 96433578, 17532450, 9599360, 1132761, 81906422, 79238087,
   56930355, 53398313, 9807338, 54560777, 72037350, 12090141, 80007584, 77390737, 42919326, 33453451, 94759417, 18664204,
   25014208, 34541645, 11867279, 9057348, 15057773, 21094202, 96713278, 85951541, 55259205, 67044791, 63981056, 95708247,
   88837886, 16275331, 22238665, 31550068, 33332298, 28143195, 78933397, 30969022, 18746892, 15393552, 24232942, 18370670,
   19986667, 87055077, 7576329, 46551650, 53505803, 17296400, 92233657, 87822440, 88115084, 81290145, 67718468, 90011459,
   47139408, 350803, 11606074, 10180770, 4449592, 26106036, 21257727, 54633471, 9664853, 70902274, 42841872, 44719720,
   40758456, 86241813, 41901875, 84744057, 68724154, 53093305, 90357936, 22538432, 24437551, 23876362, 12994148, 87524578,
   86951464, 14237202, 12289351, 94511032, 78993419, 65329327, 73122694, 3381527, 6021653, 96764616, 34802080, 73829288,
   14963617, 12353859, 68751017, 13219711, 96970718, 85872589, 30830921, 44820111, 4205083, 9460989, 69161646, 91984458,
   65531307, 8051038, 86759628, 30611325, 27512750, 53001717, 27072625, 87406136, 70918896, 79914931, 77939198, 86935994,
   88464876, 10282181, 53580275, 411176, 70288118, 1083999, 94408859, 4101108, 21947156, 77790742, 67367295, 65275617,
   75196998, 51683880, 88381852, 65757936, 64200503, 3793129, 36861136, 45862389, 77406935, 21906960, 66495863, 79301703,
   54255877, 11675468, 68444750, 41282408, 98027126, 76334327, 37770584, 69783148, 83775987, 86501917, 41448502, 93612700,
   79179072, 34496279, 13859159, 28673224, 47115527, 55484612, 20921823, 56550327, 59507855, 15183811, 83305604, 84802151,
   56679328, 25153799, 11615312, 44734039, 53695497, 71964943, 86237268, 35562725, 56966882, 27704787, 69880281, 52111694,
   45022277, 16098336, 71853583, 9415995, 25209730, 82305104, 40373551, 9049999, 29899207, 3221960, 50682797, 2589776,
   83543462, 37145562, 1585562, 90277401, 17435339, 69644714, 35918516, 90123846, 64302905, 68509710, 52907690, 61049544,
   11568460, 66045542, 86004003, 56868128, 27020194, 45264442, 10016743, 31184987, 13073419, 72449164, 9609449, 73622333,
   98513776, 50193381, 10322549, 96700965, 73509446, 47175614, 18469913, 9579838, 98571541, 40664814, 97242423, 11539851,
   43690710, 30633874, 45140227, 24548756, 93008805, 5045973, 48500052, 52822134, 15819970, 27319220, 43820606, 99903689,
   25414341, 66635486, 21158770, 66087759, 81541366, 7647884, 94346793, 78037927, 7128248, 64399398, 87392918, 50440064,
   36326793, 78891241, 65012254, 95013889, 68095897, 18448745, 33267881, 55720751, 73655335, 66165337, 80386679, 39050328,
   73644110, 64430400, 35984479, 85809867, 74502673, 83501812, 69866900, 99584996, 19117922, 4703419, 35385664, 46977787,
   11881904, 61709536, 33692754, 16940342, 50033230, 81518509, 46756357, 44851185, 67284125, 87597440, 48537314, 66889790,
   28570021, 4013658, 88743029, 74117514, 77262466, 3038299, 38344221, 99098135, 32927481, 95339072, 80396630, 31706252,
   49526565, 37754128, 27365161, 56750834, 97304162, 73808969, 36520688, 52005209, 5819378, 34367965, 25238933, 28944814,
   22024299, 49641368, 45956030, 21220266, 38713051, 43036599, 65516156, 96605926, 54014802, 17820168, 78907235, 20778379,
   41453229, 33634451, 91745625, 71078625, 3294641, 43617752, 69785053, 37343412, 2083614, 9221883, 87116438, 44745484,
   66042080, 34128356, 51157885, 63967637, 62514102, 74796994, 89070233, 96625304, 84290817, 4097791, 36591093, 43211649,
   88569190, 27274413, 18130529, 23997725, 18128990, 12466049, 90028575, 87608156, 89883876, 43136729, 81142315, 24448689,
   90655429, 84856915, 89737469, 92784670, 86113053, 18048237, 57648486, 91035248, 45426042, 16775267, 59219230, 24331244,
   94387121, 46744101, 36979534, 21676185, 97797101, 74414562, 40955886, 86358479, 18127642, 9493325, 37174347, 5479344,
   70987528, 98374468, 24718986, 45062746, 98451199, 90351339, 5568060, 82390284, 67478312, 80916813, 63924730, 42501346,
   58328192, 54795260, 35127856, 10888580, 26352414, 67061085, 30475649, 57623785, 64085737, 70076219, 62037852, 53942120,
   74101896, 7144300, 44288465, 55266610, 17356486, 63255996, 28692136, 50157778, 2206312, 9980891, 2528626, 63515891,
   10446997, 50276165, 2234271, 96373720, 78755293, 80598367, 6770959, 83381908, 4474618, 48107277, 21803815, 32221431,
   17199243, 68534006, 78868385, 42372103, 54972101, 89279288, 11902260, 94034815, 73850106, 18032843, 66288883, 48324595,
   79209345, 23506602, 48437402, 69465746, 49109408, 39282202, 36171120, 97577204, 83136940, 29956420, 14074123, 41876148,
   12690757, 4588373, 78769872, 93927528, 89112501, 47285172, 19154096, 5876864, 33793022, 87049084, 23423571, 73189816,
   93722583, 98533918, 69358728, 56754473, 9345097, 6963152, 15549849, 13198064, 64847572, 9821420, 1031695, 92050742,
   72897251, 7075836, 99340627, 64166380, 11822206, 59476255, 90239621, 49889011, 95727555, 13583770, 88954688, 9077510,
   36799728, 33725678, 65639806, 40254192, 77615078, 31447444, 43135169, 80106664, 86899057, 71470950, 87155233, 847480,
   18193309, 73562270, 39875088, 91146509, 60620057, 34549224, 57509740, 16187269, 9374125, 13999678, 33379374, 84019498,
   32228363, 58847118, 41935383, 42965932, 64822280, 84554637, 16582308, 1137866, 43999729, 89174193, 62784190, 37518309,
   19082886, 37056551, 14681777, 65973277, 22658568, 37421050, 5414801, 25960710, 19200633, 95307657, 3678398, 97597507,
   21185646, 56712254, 8491542, 30918, 95458207, 93779476, 30655271, 15979477, 53275259, 4661115, 17991505, 61072017,
   82740407, 42181730, 58007442, 25728661, 72587066, 77288725, 6302681, 22955788, 20030215, 88606531, 37680601, 76357680,
   39655590, 62249439, 70046610, 40172651, 91917648, 90578632, 38032711, 97771714, 42198119, 9351563, 48288393, 47371688,
   6217893, 94164839, 50679825, 70031498, 89329205, 66566212, 3236651, 84286827, 76761817, 50994976, 88060618, 32542199,
   93834264, 557538, 85188563, 84257436, 58935110, 57369276, 7067310, 56747287, 90996364, 58956845, 78974614, 3158550,
   30756400, 38271753, 94624156, 30711726, 19949491, 82035827, 40236069, 68048125, 10978798, 11605883, 5970446, 80531025,
   41173856, 66412733, 60130132, 27671666, 27478203, 35598883, 701125, 45265469, 92070541, 81979735, 77101403, 91636243,
   41177857, 90663147, 16962999, 14052486, 6532219, 59706133, 60664130, 9344650, 37465136, 20007454, 25792756, 50504604,
   510962, 49407694, 60913738, 18600042, 75263080, 33505886, 75026872, 50803039, 31780112, 46381440, 3862995, 63818700,
   79494611, 25880978, 87771000, 72537124, 99515485, 518115, 68936496, 94434631, 17168254, 71902099, 63353597, 9032596,
   20994589, 75708638, 82527220, 11206736, 25316719, 98049113, 36535671, 41567090, 69716218, 11370475, 97188051, 99671171,
   71972790, 28439758, 6034801, 62943325, 81743213, 79481440, 26632389, 59450850, 44113116, 99425135, 33572429, 86379164,
   24451737, 14097344, 1351726, 71969055, 24044172, 50596962, 38560350, 78204727, 46500035, 7843641, 19161292, 44132492,
   25075032, 96084423, 3581643, 54959538, 46169837, 62357059, 81202707, 22744000, 68596776, 90276052, 5336197, 97102338,
   50477688, 38576005, 80358347, 71077381, 70892706, 73056698, 95908195, 52961916, 33858843, 2990442, 4822701, 26634011,
   81998005, 5473034, 61006994, 55749984, 56634693, 26992346, 79298499, 99142236, 26513025, 48653097, 13722626, 70943307,
   56407368, 99428640, 2277913, 29208263, 69142602, 16585015, 73977342, 36932987, 6546406, 64617557, 54614320, 36044677,
   55308458, 93155328, 46389022, 48776428, 15929287, 40593795, 81656214, 55197592, 11481820, 98784294, 59479965, 31896932,
   41635803, 20672902, 64769302, 84782401, 52277367, 29370320, 38601307, 34492785, 93478802, 23608797, 1359458, 83997104,
   5762013, 52595914, 52543531, 95243301, 68440916, 84764727, 68512823, 52990947, 78185994, 40902741, 97596790, 71592200,
   95957777, 41729393, 92471650, 4811351, 61892242, 71655280, 66831839, 12500005, 72566328, 19724655, 90825811, 66187755,
   8448697, 88664116, 24970151, 38059909, 51650825, 72920209, 24361263, 76247158, 79855013, 99738672, 55050541, 5025547,
   86639531, 53825990, 89873277, 21365342, 71337363, 58640277, 19284663, 88745957, 59984718, 97631855, 7938516, 12320843,
   36276740, 69709945, 22709039, 24353916, 39138400, 22546423, 26116702, 59558042, 75855775, 73867413, 15566201, 1397431,
   8143215, 81971171, 85137693, 60014402, 26769247, 97525451, 45618051, 53129752, 91440730, 97210747, 49711375, 98562323,
   13686176, 54254127, 25028705, 56856048, 84441520, 56327827, 17648310, 22616418, 95693400, 22855362, 42075938, 22856071,
   70610629, 34436261, 85538384, 14526316, 88605649, 84398904, 276729, 87285994, 15113559, 50469118, 33924949, 92248991,
   89449394, 91372844, 88455475, 46760259, 58137575, 4559011, 84839642, 80061372, 61392701, 59585663, 54558819, 55163292,
   47577573, 82033412, 41052680, 86854926, 10037405, 29690585, 71259223, 89866918, 39655732, 35082682, 11090143, 26972981,
   55268533, 37053978, 3060282, 45509420, 37536871, 83224419, 79586471, 75316898, 46203478, 73975283, 70046458, 5861364,
   61750465, 36091529, 84496559, 56310963, 89100841, 73741875, 60414461, 64865522, 79714515, 93866429, 84248853, 86320809,
   92510804, 26336058, 42514254, 93896890, 36791737, 67777318, 20262825, 75415976, 65476921, 28722133, 6589102, 43723653,
   9234229, 50305148, 5934182, 65408170, 70980546, 6731182, 31750609, 40383372, 93191328, 89055925, 61369585, 80685816,
   69630797, 81983905, 87726811, 15835895, 52871517, 99338435, 41914205, 7285077, 50377005, 76792659, 15664292, 54817702,
   41449426, 85963821, 61084803, 51362864, 60924181, 75968301, 12150608, 30843830, 29105503, 32704709, 31442715, 95704635,
   48544268, 69094335, 27575179, 99142703, 11768613, 93045719, 70849958, 99211582, 33907436, 24011788, 70992773, 78876201,
   48421892, 59556324, 35828231, 51423159, 46978, 59982880, 42229106, 34151528, 48812323, 66485912, 52768243, 82225657,
   45203924, 31702439, 69436111, 63359608, 26284391, 31466141, 48956856, 17466807, 54436784, 33323313, 95509393, 61867512,
   84447705, 83061885, 69832965, 32430490, 18489751, 18147432, 95094677, 37975644, 9902699, 25366288, 21996336, 5621439,
   18559871, 30421415, 61612155, 27917326, 28831262, 16534677, 84622142, 84199954, 12068488, 82949219, 71770279, 14993110,
   78653779, 97979537, 94845927, 10935263, 31308408, 84400388, 61935710, 13011451, 77606338, 91333014, 20105765, 18692662,
   62121861, 25948915, 39644526, 78146654, 9412576, 61778333, 23940519, 7469920, 2017200, 59958684, 53987328, 42694004,
   11685158, 78124741, 77543139, 72874890, 33163742, 97716088, 49218821, 75044368, 18753749, 96212230, 5798164, 3570419,
   38695249, 94375549, 65934363, 35530293, 1323931, 65338713, 87669312, 86572960, 32810367, 51670986, 67965907, 15086934,
   72749547, 83731526, 3411810, 47419144, 4283815, 97578523, 60626044, 17954849, 31397347, 86942916, 43073606, 69962778,
   86804491, 17073416, 7321784, 221031, 65711366, 50884237, 60325320, 12774791, 60182214, 9076613, 23450636, 52224936,
   29664562, 46572164, 55144249, 88524095, 46038828, 45709595, 29467578, 99039549, 8121584, 24824192, 34960447, 87223030,
   54894353, 94195018, 31279450, 22235360, 67294524, 70147470, 9858408, 49676390, 28183673, 12834067, 66340504, 25362909,
   79223832, 68863912, 56919551, 5897031, 8485772, 42006708, 14649083, 25227500, 66124387, 44756659, 7300355, 53128501,
   27939167, 99464262, 83580126, 93355790, 15955490, 8423613, 78055244, 27489692, 9779223, 31680866, 85900275, 28099565,
   34878655, 34116031, 57808948, 86341058, 81682445, 75968705, 12644066, 93821895, 10776289, 56033634, 50032748, 78659644,
   87861687, 2949004, 68301162, 16792455, 52090246, 20429480, 40830515, 87432719, 56179379, 22684936, 74139290, 27367630,
   68637083, 19546845, 9817267, 75449802, 25974704, 90196781, 86238974, 80152616, 41423414, 48710980, 17508142, 34677913,
   31478689, 74567691, 87156403, 49758292, 82915436, 12119079, 87857482, 76741697, 20500943, 16527849, 15131892, 36647719,
   3917382, 16705496, 20834988, 10041439, 6244767, 36419577, 91055666, 13145405, 1243137, 49850, 90565306, 17542275,
   98394516, 55622033, 17958431, 74881625, 88652103, 75602671, 76679589, 27329915, 87984004, 48808974, 84048409, 51325450,
   44055177, 98600244, 7227759, 96201925, 59184232, 41009636, 54890933, 86555639, 59739543, 6892694, 97100563, 69729079,
   57511617, 46307049, 7646180, 18358714, 38886532, 47917889, 24859471, 20297762, 19350686, 16749030, 82282230, 90749892,
   77841631, 19971904, 1185642, 83625878, 15143895, 11842856, 23400561, 52050966, 20481963, 67914744, 89771500, 29612827,
   29875550, 43238333, 28187259, 50879248, 43549522, 59868662, 92819324, 82727376, 97169820, 15028428, 34095769, 17128564,
   34522455, 18105222, 87537496, 98392743, 54254538, 5764550, 54766659, 37693717, 41034234, 92021411, 92173138, 37801189,
   26758113, 83118287, 9520854, 6804174, 72508782, 46641318, 20626930, 90951964, 61364087, 90368530, 26987750, 48681120,
   38240307, 89123662, 13020587, 19461582, 71212908, 7225205, 49290119, 94166546, 32798479, 40268373, 91572984, 43260290,
   13254080, 83621979, 91596002, 98696315, 61234195, 84414842, 31422338, 59723286, 21002915, 21089387, 6286825, 19198147,
   69083489, 72531158, 7551424, 3521435, 39975473, 6408424, 88638220, 20866793, 21568721, 76803292, 90744253, 64864251,
   7937612, 77761152, 60394937, 65771610, 91853484, 30351344, 14771447, 67550992, 80177322, 83074784, 5088496, 17935377,
   2937281, 23901276, 90510028, 11706686, 50068267, 80419886, 29022947, 49884162, 75922502, 51775811, 35816228, 27431708,
   11282963, 51582386, 64548177, 41710205, 72437659, 90387566, 1010782, 97601909, 58843934, 9521964, 3354531, 16643394,
   59851201, 45997399, 44550930, 54304744, 61489995, 83472138, 89250150, 62369410, 70220010, 82333073, 26989126, 70434752,
   3584337, 21731621, 10607397, 147932, 51565471, 45249572, 44702546, 44652386, 67509556, 68736646, 8404185, 26007317,
   34014415, 76466302, 2010675, 16345550, 11290625, 96837924, 80872204, 96282858, 21477704, 61260640, 99586235, 81741237,
   42869086, 65746306, 60617274, 81871309, 78725355, 20047234, 90563585, 26037199, 5199239, 66714319, 7746864, 25819961,
   85400218, 57431956, 24844800, 66415247, 3993072, 33436072, 46681436, 60251977, 30053580, 45395716, 60344375, 7069519,
   63977541, 27556056, 76382004, 95812305, 16303840, 92986253, 98924347, 81438946, 36632144, 40223389, 71309121, 88439757,
   11653, 52106778, 82093197, 31740366, 65115018, 58103185, 3432317, 99390256, 86553007, 86220814, 73053724, 19927074,
   84503221, 8397013, 18038958, 80211549, 79577939, 23895658, 26404057, 24076917, 32872134, 52780762, 16414026, 43311855,
   53965505, 5012033, 46604638, 90601201, 3970072, 81311059, 9626232, 49610820, 29944953, 82240678, 44053198, 66635684,
   229111, 48381564, 59002332, 22954621, 9566104, 82545545, 97002948, 12179688, 23662218, 51661091, 94728196, 59427825,
   14634888, 86704949, 43775461, 15146959, 57941647, 90162718, 25310854, 59359688, 32552849, 79839779, 35098478, 27191034,
   85565067, 72302371, 49059221, 38703192, 44160541, 23390500, 81917298, 58594376, 64934955, 71873894, 54743832, 16910311,
   57244347, 8532430, 3908934, 89776520, 62953827, 61871919, 91035749, 51365425, 69744600, 87145692, 86550988, 96075839,
   4094187, 13322402, 38501044, 33812770, 64748153, 30349160, 73928597, 4093792, 41629323, 91619569, 89108063, 50410447,
   11666578, 15208045, 3426757, 47445823, 79863076, 40620799, 91501971, 14501089, 24757000, 66134076, 24623875, 60292719,
   60189685, 22890162, 38382108, 77033805, 81805305, 9713540, 99927676, 94639803, 20978612, 5208524, 88477653, 90292828,
   77440761, 19323823, 60028996, 43268585, 74875320, 62008378, 80464842, 46878280, 71111459, 41475722, 54549242, 99837796,
   6709976, 23777937, 74730920, 89604032, 16851258, 17376764, 8735749, 27482518, 2521598, 98265428, 92491273, 31164859,
   84049731, 97960166, 37435672, 89153096, 97768221, 59043404, 2400357, 80408739, 22540426, 4648978, 1898632, 62648029,
   49603940, 95109428, 11819353, 79265395, 25457001, 48588797, 8463912, 14619158, 88788306, 7759431, 93098614, 34638487,
   65227723, 26220800, 40620449, 21977371, 61114209, 74956602, 3243243, 57021690, 33928077, 68301878, 52039564, 38934038,
   10223718, 8499725, 72786997, 69560678, 85445561, 75504542, 76650665, 57215500, 3368928, 60050536, 23496492, 97629654,
   4231128, 4150524, 32097707, 91586439, 73437214, 21759696, 87614687, 78713103, 13498980, 5533915, 20907272, 26260642,
   136086, 15030600, 8862784, 26959582, 13320146, 80614119, 31663435, 16797136, 90005497, 33570225, 67876427, 68513673,
   24184128, 20742985, 42041755, 52416195, 31727617, 1011540, 60609600, 74161831, 90849245, 9522495, 52222496, 730870,
   15505159, 82344765, 39112584, 72032479, 96730139, 36054566, 676165, 85870010, 42796150, 54057835, 63847428, 87335294,
   55734852, 27021940, 9730988, 87774759, 18816457, 19360330, 58495519, 91079557, 73635641, 80006583, 34550126, 92274047,
   68295979, 91578851, 16482462, 80097933, 98025481, 38394489, 64073195, 34138113, 9972609, 84837470, 27779821, 33374458,
   86383122, 59721965, 55029607, 16461043, 27019582, 65007352, 18844247, 45959927, 47877668, 53444079, 62151333, 21803341,
   23709076, 36102036, 20345269, 99255667, 11132170, 60864820, 48219120, 62141101, 12905069, 72925662, 81496690, 51660145,
   11057452, 15869742, 56694040, 29139226, 73729681, 18112385, 30299855, 76289354, 71906112, 94583354, 87642100, 13928708,
   37733706, 95596310, 32032387, 66997045, 67685189, 72265432, 16682347, 47567536, 85122789, 82960828, 89704573, 86094278,
   86225605, 19562186, 45304399, 31087748, 37833650, 22688214, 27113421, 52485311, 44560358, 71286679, 34237124, 82596155,
   5927254, 76183057, 36235962, 11467706, 89022897, 11634698, 15205245, 31489784, 35915174, 75257458, 48408584, 95802447,
   27337749, 3074594, 40801256, 45509903, 43265758, 43779218, 84543595, 6715035, 57221553, 60657416, 75555976, 15717170,
   46066133, 87073448, 64377818, 43000790, 16132484, 9956361, 18838839, 2406766, 35167519, 17857851, 5113823, 82819201,
   40719640, 23180020, 14423410, 9822227, 20229964, 53662704, 94431581, 80114995, 22889690, 51151380, 79390068, 31758427,
   28752853, 94970417, 22190542, 87689761, 39291978, 78639228, 67330389, 46360375, 60516486, 7758979, 10676315, 67228183,
   2409048, 93522924, 45890680, 45923868, 4242019, 89652503, 99425077, 29390288, 93383151, 32328027, 25912209, 68030181,
   68559449, 80625059, 96419115, 83820297, 39765285, 4645512, 72650408, 28715751, 11940795, 87229101, 3590046, 39361545,
   12367477, 96241015, 53338705, 35435838, 56749333, 36451198, 29657684, 20437166, 77334950, 74395481, 12823361, 80004126,
   67316320, 8057164, 47925622, 36015200, 98451465, 4178997, 84497071, 9535030, 70282751, 98358814, 9677453, 18067463,
   26226087, 39262994, 9398452, 57557921, 57412277, 10114653, 55763067, 71378455, 32515697, 35559175, 76197560, 47827452,
   65169305, 24773952, 23167093, 97186827, 6943534, 46341684, 73212687, 86471404, 83338098, 12985138, 63682342, 91568791,
   1259256, 82321942, 39514238, 75909219, 80570516, 997718, 96508117, 67507505, 66359635, 46485366, 25424581, 19862842,
   65449296, 63504561, 6802989, 41329621, 68739708, 13001991, 13176466, 8707607, 70299206, 66790617, 12210704, 50195781,
   85422896, 21537126, 7853780, 2151212, 99081118, 16013996, 11674939, 10986117, 75771345, 23206861, 32799625, 17480916,
   81198161, 31210750, 988004, 96357741, 96234441, 18806842, 78483606, 90896945, 49197709, 38576668, 61949236, 97561776,
   84807837, 25474114, 81679918, 8617930, 83053149, 77835257, 35810650, 52875690, 84930008, 56071077, 22118342, 32329224,
   20531987, 92321179, 92927046, 2460142, 83297858, 30170786, 15570166, 57698116, 24162930, 66717219, 35568015, 9852854,
   60306269, 63894915, 56083856, 88914295, 35215686, 45040081, 78574031, 19676397, 90181485, 71706412, 63716972, 14081472,
   14888100, 29561468, 51044255, 75163084, 92370378, 54617777, 50480992, 85764111, 36927638, 98114921, 75801920, 61109868,
   64304601, 86960630, 15809030, 89885371, 79419713, 51388736, 74969589, 53078683, 49303753, 91321523, 84723843, 82999787,
   11786219, 87985785, 28156485, 30861911, 19844187, 44794640, 91764328, 44402412, 9214866, 21744297, 62372071, 96285215,
   6410527, 35518810, 38413826, 34672118, 89359428, 96866557, 37312141, 84575701, 3880985, 62042959, 34929994, 85456614,
   21612961, 79452876, 59171196, 41867465, 84328390, 68787904, 85362987, 82127452, 57314881, 59662387, 2875220, 85565570,
   70543544, 18152073, 9902770, 74959657, 79583853, 65127354, 23605615, 33065254, 2072902, 99477743, 59617906, 20870971,
   18127880, 53927302, 28790937, 56149237, 39805974, 32728151, 83185908, 46822729, 51539602, 40054765, 91146922, 94177708,
   34169649, 34887742, 96805184, 52662980, 28556418, 33978595, 83953682, 62200676, 26794031, 61710757, 42639308, 68204628,
   74911453, 86922703, 15875658, 28197915, 9594575, 82692996, 35183288, 94414892, 79018881, 24249777, 71500873, 70199579,
   36778137, 68964913, 43844244, 34464656, 227789, 24561412, 20568242, 79279883, 64110318, 91291898, 98500655, 95888564,
   47055881, 40622598, 70853755, 53297013, 32074034, 4243288, 16512273, 30703645, 80004166, 13116364, 16354723, 63072600,
   55029996, 64023444, 52158474, 45139487, 96818218, 49657496, 56076783, 68089202, 57066067, 1495354, 71874420, 55245211,
   68980418, 43760636, 51613902, 70739786, 24648853, 36774753, 4401209, 11880369, 47161489, 58145046, 78933999, 68081210,
   52098927, 23836723, 22583552, 57997856, 2308775, 53084787, 52265979, 14876929, 26919679, 89800156, 77369668, 27520567,
   8784409, 73880392, 95166215, 77551063, 82192002, 58040083, 69254425, 60457914, 50200208, 71754508, 93800878, 73325877,
   19629680, 91212665, 55261109, 45814567, 79654190, 61012931, 56914286, 18603828, 83651639, 31533055, 91742149, 68637528,
   26316139, 22034435, 53312759, 73946860, 37869598, 88045866, 61581039, 13879225, 3329498, 58601141, 78198514, 9272456,
   76647533, 34523189, 40994328, 64847445, 76332528, 25215830, 54377074, 80344510, 41753068, 94979754, 8688537, 68801318,
   95981842, 95279526, 27941372, 89413680, 81758811, 77664595, 63333759, 85109056, 82215887, 33965652, 96569671, 6652532,
   91995180, 13498352, 73569684, 73032787, 2146200, 35641116, 95825131, 41979263, 1977044, 45561346, 63033500, 31214970,
   36890451, 14095405, 23693160, 50910386, 99374858, 90861787, 902492, 85673232, 30444125, 29846679, 15143429, 98024927,
   93210617, 92393030, 53152591, 21655182, 90386619, 13789627, 39588244, 39305311, 76524720, 49580256, 64004699, 94493422,
   18200954, 3155889, 15389271, 18122595, 70611696, 25192088, 36993415, 56851687, 43850343, 6475326, 23433646, 72729817,
   73376923, 46682053, 4789349, 44393125, 68655878, 72123895, 78467707, 59379595, 73055563, 91754236, 96369801, 57320313,
   85519625, 83347348, 5135316, 40075243, 6395755, 32318992, 24736842, 67140867, 76451818, 37409299, 24589952, 60371043,
   13428658, 76809688, 71309047, 24672560, 78856737, 44805020, 48194499, 20226810, 28835049, 70533252, 4761735, 9272631,
   69903725, 11870370, 34150332, 3635440, 85407337, 86953457, 7117310, 71345711, 46647504, 56222408, 60217880, 29247433,
   42439615, 65737425, 44643217, 35022219, 76030944, 76498101, 9892292, 10355411, 6894831, 99519755, 6282747, 25642485,
   46565917, 34230141, 19379621, 25448243, 25936028, 6881875, 19184062, 4439882, 68972696, 30807806, 88234546, 61260044,
   57881812, 3926265, 50430987, 11137041, 83792392, 2997226, 86390470, 94726301, 64235032, 40698274, 46298737, 55199757,
   67264447, 1413521, 24249730, 21998851, 71668395, 56800685, 4337341, 49633964, 38472855, 89675484, 6728656, 35618258,
   76307798, 23800519, 93714371, 86370006, 8495112, 3585635, 20671668, 95811232, 92371217, 26898826, 48274109, 26736172,
   42525212, 47953086, 87015172, 60836322, 14475294, 22836719, 75693127, 86160810, 68354477, 49018945, 39813926, 11758225,
   54036522, 24636769, 15342574, 9900408, 36810081, 58109662, 32350349, 20710591, 40414724, 95792888, 73477993, 77289898,
   98572566, 41929681, 80004661, 58351314, 70953078, 6481336, 10050624, 39544121, 5192971, 89115404, 76452949, 60833749,
   35195948, 60507527, 65564954, 4273290, 84568389, 675156, 60235856, 25344391, 28063129, 8275568, 77733184, 35559637,
   6769393, 250631, 19962557, 37192346, 64862717, 1253599, 84632315, 66652766, 11372321, 60421700, 46795668, 89450326,
   69900004, 10291266, 51883172, 10301012, 56230008, 15471137, 52467638, 89316647, 77931133, 6098519, 30693645, 7888355,
   53126195, 77979703, 110828, 26083978, 94799137, 27859690, 85879143, 8339303, 31770939, 36014864, 59156072, 4959170,
   63241528, 44943676, 3709657, 76177564, 85374756, 35997340, 40542090, 33631872, 2077844, 10721708, 8274287, 52884733,
   1810863, 80889719, 52374322, 20428737, 28454849, 36194878, 36020605, 67259132, 44848162, 43199557, 65154156, 35068031,
   66444826, 5255828, 57903393, 9689039, 60768849, 44774380, 481355, 50407782, 97282392, 65288721, 22603159, 75436263,
   78034738, 95395957, 48909572, 2610312, 42909112, 96614710, 20563376, 52021190, 67789523, 48126691, 26785713, 34719418,
   18265402, 79746710, 24184556, 59096269, 56027127, 2256479, 28817452, 72468568, 33402545, 7269399, 9737475, 17757240,
   78797913, 78664102, 38364147, 76426996, 42075985, 2577674, 33111659, 7069120, 23140184, 9368461, 85490212, 89544327,
   98579448, 54403918, 34034296, 37729771, 14752287, 28832133, 23430715, 68719869, 88593669, 47015089, 91597925, 16509628,
   13232252, 9602258, 69824115, 99816498, 36913711, 97687896, 77215895, 57046689, 31519513, 88617037, 76926645, 15015997,
   23661255, 23212126, 70742573, 35862669, 13623702, 98811276, 22639096, 3389739, 36782370, 15393740, 9231622, 49260800,
   41089115, 33972434, 17407678, 39318435, 78727240, 71430620, 29954619, 79562385, 43340852, 32414379, 76594414, 21315734,
   15903373, 28351686, 48722749, 87980072, 60944717, 37918941, 39126795, 22047821, 87312258, 43071078, 27888155, 2890047,
   8605754, 80136302, 2430120, 99842891, 30899179, 12151347, 46542692, 3473196, 59455864, 22312671, 24164955, 83661570,
   96225666, 73004754, 56226986, 22175383, 77664154, 74796094, 4069560, 17264021, 20483820, 82751394, 80409872, 45782738,
   85930884, 34450301, 85046366, 29981170, 47530216, 77214400, 73964922, 52252197, 10136769, 22919749, 44851554, 16194157,
   30320764, 23203044, 15799783, 90391945, 9688516, 65923118, 16611411, 15957494, 20135726, 81030468, 49552824, 20411887,
   23142322, 326807, 80300329, 25568324, 17332479, 48665046, 80167789, 57122792, 34708318, 46404529, 74890343, 19078280,
   77582029, 86122493, 78348317, 11126851, 57953711, 94119969, 85213353, 41377022, 97773211, 40808434, 43540384, 90612308,
   64138819, 88194516, 72495948, 81234785, 5884278, 70952140, 58449269, 37276748, 32707741, 57839336, 45033889, 91874579,
   24885273, 47878447, 58749002, 93888054, 8040437, 84983022, 65419533, 76691273, 15960588, 3539061, 24945677, 81419808,
   50672954, 51775038, 30804941, 98153921, 82303319, 34625394, 42270926, 39194751, 13565068, 79454126, 87544692, 60716586,
   30296725, 13138608, 95652251, 41959830, 67556908, 32245605, 97239054, 10856831, 46686804, 65727345, 19070005, 58552341,
   10605741, 30221156, 36424603, 36084853, 4833352, 96658935, 49352168, 96003121, 77429029, 59484746, 77948118, 91687309,
   8111981, 75665486, 96593523, 27265556, 18036927, 72586438, 26688694, 70164013, 12334082, 81563116, 69103446, 49299468,
   91957430, 52337353, 21274444, 27770534, 63539853, 85692618, 87124543, 95068263, 13422398, 84740012, 76311051, 64328294,
   48848550, 49848968, 36974774, 39721029, 49237733, 11167472, 61087299, 34071160, 30786699, 57868807, 25979471, 98422611,
   84155567, 94334959, 50376672, 71469346, 11865917, 72126537, 98740607, 64479966, 55386525, 35813394, 89382568, 31379136,
   39022877, 58654034, 31188694, 89955509, 54662369, 88380125, 89065694, 53727543, 16315922, 13261016, 74082185, 30217942,
   6337390, 36550343, 32525401, 42375559, 82359417, 53746384, 92535684, 26212864, 95461809, 34039375, 52612828, 25832431,
   26412993, 26851029, 46450879, 57219368, 71936365, 10420247, 74625544, 11045734, 8850880, 5365387, 68821677, 86159214,
   72779083, 58034149, 46535290, 67492584, 84133319, 47231700, 89855763, 48949076, 89535535, 13297671, 83540037, 37967647,
   29508966, 23022845, 85671304, 55216322, 7706071, 30163305, 62162866, 92132970, 21699743, 64540490, 79139101, 29981959,
   11263444, 64886729, 10444398, 46271757, 61440594, 24558709, 33054569, 17455904, 33406009, 16094957, 23551621, 76971427,
   38585892, 43797401, 30200696, 61665666, 17802343, 84055986, 24487191, 7162938, 4806052, 90292426, 47609999, 56036267,
   27843966, 90800480, 43860430, 40577663, 81154230, 88427738, 28258001, 10393453, 88244760, 36749407, 54878704, 98140329,
   18120767, 14853453, 46284706, 59312346, 90286387, 2966866, 82294420, 84372186, 73425215, 62814170, 96938365, 44085105,
   1042113, 60457426, 66240892, 62509868, 25996290, 83195970, 41253066, 41832790, 34286956, 13332772, 40885348, 38953427,
   50587389, 84503289, 36252745, 785295, 52656078, 42849155, 29103339, 85489327, 19221923, 46480925, 97039083, 67564757,
   26416898, 36292926, 9264826, 2446811, 81775613, 81294574, 93626393, 27456531, 99202215, 78179297, 86527726, 77770514,
   93680262, 85913469, 97239741, 31163900, 41278909, 92123294, 19712062, 40148822, 68719870, 80082317, 39156015, 8582616,
   60563286, 33429207, 48876103, 99824698, 61610641, 73783445, 55218713, 32543167, 47465420, 60577642, 22071482, 32556186,
   61127472, 90523234, 19006185, 11279937, 90172252, 93321622, 94846466, 91919917, 38816149, 9463852, 69875955, 8363970,
   60557746, 8884862, 99833902, 88690247, 2225756, 30023887, 42296254, 93756558, 14393549, 48233800, 79125736, 95099671,
   86410789, 97367516, 47263389, 55868181, 19106598, 21064497, 37831556, 2948739, 94100056, 73046581, 96183517, 98469134,
   22146639, 79345262, 22114917, 33035414, 49365196, 65906324, 98964526, 67241439, 75124900, 9012565, 46152910, 88868751,
   71791619, 9465117, 82566646, 76374307, 32795039, 60816587, 52786455, 21405348, 74613268, 72253513, 72402447, 27920883,
   78083792, 79302382, 72331649, 53771038, 35873152, 25539941, 82988084, 39224, 79568105, 23076453, 48903547, 13551104,
   6997143, 20307604, 47350914, 92585648, 84226751, 9274815, 33364392, 84773930, 16502742, 83667180, 90879014, 32000019,
   97872006, 53856739, 83015651, 68853849, 39676647, 74901664, 40212349, 73731533, 94358554, 72154767, 5330160, 84392376,
   23742547, 43516082, 57641, 33857643, 73545834, 24655307, 11215270, 91767493, 77269843, 33959259, 34725230, 4582765,
   42505879, 54191399, 63730225, 68951965, 90668262, 13773310, 94766649, 36401173, 87331289, 13976240, 51853942, 24190194,
   89203886, 50313184, 11018384, 5218031, 44304660, 39865790, 11222867, 21978798, 35214638, 77519695, 89366241, 664458,
   99951851, 65669005, 31678501, 21341764, 87323960, 57741870, 8131210, 80183305, 27988748, 10999511, 53103893, 37036252,
   6556443, 19881211, 17137681, 27374164, 49862720, 965826, 86931413, 93245476, 19623341, 71283707, 76106152, 23909776,
   88808246, 13992265, 55819083, 48510356, 15176538, 37484635, 34541914, 44195366, 67945431, 5330941, 80139860, 5736936,
   4196136, 540016, 33280914, 96487869, 4252143, 89692760, 32210541, 25214064, 1277678, 59694074, 51860972, 87153263,
   79301882, 41693077, 35844900, 28712227, 62799698, 16959520, 52679677, 21287991, 22459354, 12272861, 92016781, 82395248,
   45510832, 86318030, 85781037, 67114429, 53506548, 14636800, 74703254, 86080108, 42274311, 68295847, 3868613, 74851461,
   45710859, 25485548, 77682796, 98787087, 80031678, 84464442, 92101923, 31708298, 93839367, 17785967, 7625789, 50019686,
   48460405, 42863724, 24791213, 4324961, 89156461, 36264148, 32875165, 26582806, 98060542, 98598079, 33244512, 95711204,
   46372024, 15327406, 38866773, 75994122, 69698129, 56736871, 38680887, 4980423, 13416629, 95034586, 87494899, 73862903,
   31390204, 22783166, 13925209, 75719337, 18551915, 21292315, 11573209, 41270306, 34205393, 11859410, 62616796, 33921069,
   85721913, 98813976, 98640310, 27937704, 9915743, 43211949, 85283815, 78044762, 11918517, 89194144, 79395185, 99112900,
   9282774, 75580782, 7632214, 94992761, 70513635, 2177574, 45018814, 47689969, 97827218, 60256211, 51061716, 89573680,
   96361788, 8758963, 60938645, 43759607, 2321178, 31155398, 47697472, 61498591, 41466713, 34955766, 47974933, 12166423,
   84335911, 17653013, 52449616, 74477621, 36007130, 29703706, 69762217, 95339756, 45966866, 60440280, 51837175, 38644635,
   48126883, 27953629, 17750351, 77013088, 39294966, 80503000, 7349798, 69999280, 7560457, 58766015, 9828670, 47673737,
   22711896, 25291497, 15789392, 51946414, 37205649, 6103755, 27963449, 49487100, 50201077, 24417916, 63577834, 47827718,
   60488893, 97740299, 21430808, 78379899, 72889875, 91075742, 30837595, 13836848, 5540983, 2129712, 881659, 2040677,
   6521568, 11322599, 78621591, 28589324, 22420955, 82360760, 4104776, 7448609, 3195983, 22689352, 57004993, 44355251,
   75833635, 68250455, 19019260, 76723546, 30119561, 67868289, 73935941, 39827256, 79834938, 39947529, 90128006, 76576847,
   85460279, 7415598, 7561194, 42240150, 78644846, 60399333, 52363869, 66729286, 35692407, 96868084, 63168634, 73232125,
   15778288, 31739906, 16263699, 98216842, 47312329, 19571920, 32128265, 52374648, 1195348, 88216813, 67788102, 79036749,
   77454295, 78545418, 8169040, 77355509, 68869469, 77655593, 55526620, 78483234, 67339625, 3521731, 23801394, 78355811,
   23333238, 85868070, 35189494, 26548458, 66183356, 17309869, 12573959, 90485985, 64450098, 18907950, 27122548, 53388159,
   28816518, 74009215, 34037993, 50442930, 75197604, 29635868, 26830610, 95163532, 61218442, 98208015, 57752241, 81857908,
   74036583, 14944168, 22331216, 54733705, 75498877, 91073754, 14952298, 91886924, 74164494, 63912464, 17053049, 90744108,
   37918959, 42662557, 66308290, 78790913, 60164900, 37011095, 30124697, 33309678, 33834537, 96683185, 29577803, 62808829,
   5171117, 27708268, 27651478, 63396699, 96933276, 95450521, 23181805, 67540543, 47550664, 23187337, 16315163, 49365691,
   25748803, 96158734, 65796779, 93681293, 1267514, 32389847, 8533940, 80371631, 49352977, 33343256, 48522632, 39201848,
   84908948, 49757899, 96909078, 12199834, 76388221, 54323649, 84060416, 89352785, 2143523, 67109904, 42871970, 45654251,
   1193761, 19005977, 45445695, 99355274, 8533140, 85173859, 93831082, 3438981, 19318220, 40647331, 79887099, 65859505,
   6560026, 92049326, 31528504, 68365626, 81409661, 66520432, 7881634, 14297244, 33554110, 95569701, 32922170, 18707316,
   28955858, 76832060, 21554559, 8424787, 36164733, 20015460, 88632162, 36683479, 84891349, 93301435, 89564966, 84907772,
   48712532, 66579292, 62758585, 14266450, 52372262, 2604, 39283099, 80431180, 37828153, 99371207, 76246610, 33632487,
   94631988, 37147463, 65409765, 3111461, 30243637, 24816070, 13827052, 69261791, 17865198, 63829450, 87196215, 38595765,
   76700441, 63255168, 18392236, 96423975, 44270940, 26019998, 80551577, 20593939, 38289188, 74704864, 49458312, 79734747,
   96650693, 20373690, 21493904, 78893717, 30883487, 49895158, 67945661, 54832597, 56485974, 18413013, 6962042, 5903664,
   78467172, 89966926, 10164986, 85461169, 17972812, 27533392, 28033323, 92664394, 39643835, 39362959, 82492773, 16323626,
   58658541, 48097721, 74054639, 45836781, 56260586, 66017768, 24451563, 60032752, 79491317, 73310922, 58467349, 47302939,
   2991705, 84679635, 60534489, 50139485, 24250454, 69788489, 44571366, 7065179, 92277167, 80014595, 26853036, 98348459,
   78277012, 46879644, 6203867, 66703025, 65829440, 28486177, 70715450, 4003975, 69326328, 85266529, 10713031, 64064501,
   90020248, 52465421, 5333656, 32370887, 91407694, 79535050, 83965545, 97380557, 24359815, 77579802, 5207599, 68672243,
   48026966, 53925643, 76783482, 13553526, 35628883, 57292336, 39689575, 18845706, 54229686, 67738301, 24240183, 58603685,
   82801420, 6459467, 58885444, 2222045, 83810011, 44735615, 85372167, 28354190, 82400455, 10736676, 77627387, 65171949,
   43646787, 16382046, 8276715, 47615462, 12887360, 33818682, 96708760, 20541223, 2835586, 22671126, 11695946, 8082487,
   98105181, 46338033, 9407857, 378045, 46223846, 79564433, 51995462, 11718918, 20305862, 82931586, 76892727, 79116158,
   90754985, 76501666, 74600106, 63302091, 41905080, 70406548, 22572965, 97722949, 10883925, 29676724, 44041529, 76049906,
   31326921, 60551967, 78637392, 2997545, 98501896, 67080948, 54647498, 94833788, 57635212, 2599643, 74099980, 75082502,
   96131236, 83210580, 24533692, 60169804, 5741248, 86170072, 49687939, 74554343, 8276757, 29409342, 99081411, 79185638,
   42200611, 19578896, 59216869, 49798684, 1091035, 8463910, 56681623, 35766138, 90323756, 92950908, 76694797, 33243780,
   9331240, 86917299, 5987551, 19725495, 6420841, 84967491, 51313683, 38428517, 94229947, 73713560, 89164068, 57134626,
   81731646, 40652036, 8847591, 241846, 76295369, 8547325, 22818561, 24033750, 5086337, 80715774, 51182997, 89205480,
   48501496, 90482517, 20895979, 85980410, 70837855, 19352802, 93917227, 87429759, 29308051, 62386435, 71776879, 58612449,
   19219717, 85983350, 47244068, 61642938, 79618713, 69373704, 60419933, 81547856, 99201099, 10527652, 24504596, 77346315,
   68316729, 18413036, 31592980, 98269737, 31258211, 30721842, 402289, 26380081, 87124961, 55306646, 10972074, 25925689,
   68941242, 56536077, 9227825, 31370348, 24832841, 73310692, 34278985, 14878291, 81306839, 82614516, 25924517, 96007807,
   35094884, 7741570, 35502806, 78476898, 23626741, 71997299, 34704229, 14747762, 4363567, 70965692, 78855789, 33986864,
   3769898, 69237018, 41167706, 61380224, 53573790, 33520992, 27726360, 23841990, 96458176, 76634226, 35371552, 63514735,
   500843, 78346564, 96742074, 47095943, 69584803, 34011137, 30935542, 16408530, 5709766, 69772520, 88268019, 33254361,
   39507394, 7691258, 32084375, 45390819, 54758303, 9043188, 64395917, 57751338, 50761122, 87120776, 66069105, 5416890,
   40294845, 11680024, 93168564, 95686154, 87019380, 18884380, 80964853, 29146190, 7771077, 56752590, 35271388, 26178957,
   13861466, 47209413, 64852497, 13005340, 91713835, 6776910, 12726772, 41131497, 59410109, 63642462, 63518259, 56380232,
   83864626, 98834327, 37832203, 16224612, 57570178, 72351633, 15007054, 65097445, 32308084, 30289591, 3515383, 89915615,
   19851575, 15702157, 34950578, 23808188, 67972471, 51009860, 28477300, 21046281, 93503375, 43972941, 92497618, 79810190,
   98499523, 85193135, 82182441, 22584566, 36496980, 96888145, 60000213, 29637543, 20816325, 41936438, 84695975, 99179899,
   55934151, 56497154, 13305557, 37112649, 64814750, 33965851, 87015094, 92055330, 84551222, 70940571, 99945567, 69936593,
   96333122, 89249212, 44623243, 61549747, 85499707, 87290801, 8154594, 58592326, 27961018, 47967150, 35247358, 46272780,
   37303086, 93904603, 66205351, 77851773, 96491746, 30695916, 78194349, 46410251, 70922124, 25308579, 10273879, 88888712,
   34720571, 55378375, 33553968, 25688063, 14517835, 7080046, 35699121, 37274229, 91950780, 73946296, 86308809, 56473572,
   72933509, 36991118, 54470540, 92656130, 26047614, 70583133, 84758382, 22152916, 94659478, 46314033, 32388015, 56489049,
   80419322, 24649845, 6263625, 62524515, 30823576, 50641784, 61964305, 76751784, 9780860, 11278851, 23334383, 27993786,
   61543624, 32962317, 95954017, 75691015, 37201012, 94592863, 92149938, 1776378, 47130360, 98735678, 75057285, 68484284,
   34360176, 31056001, 65949776, 82776049, 3575706, 7755864, 80476001, 3250836, 39388850, 20727124, 54080267, 97417958,
   62556006, 17097839, 58962826, 17545170, 26068932, 70259758, 33648590, 83010151, 97482103, 88108470, 58795586, 13776184,
   80522557, 67943520, 10799706, 66379284, 36902776, 99585936, 44534866, 23290105, 99983075, 11191198, 91681202, 48777667,
   31035392, 48336323, 53858399, 34104583, 18347734, 94260651, 4553651, 12384695, 19039894, 1321480, 23197564, 91766181,
   95600039, 7022334, 44069895, 80500933, 19220868, 33533498, 75001356, 46264279, 48060796, 28897014, 88470944, 865428,
   64948274, 88656562, 3810634, 73414499, 16187474, 23212213, 27407308, 25367992, 29471314, 43489808, 76473425, 65832094,
   70650103, 56259784, 75052618, 15199645, 22171022, 25119703, 11506755, 47721814, 86899297, 41740148, 20575895, 57878120,
   92944312, 10052336, 42999124, 11935467, 6543773, 4379006, 54870263, 20932320, 73792521, 21291739, 24861426, 90299318,
   66901375, 24136815, 7355695, 79794184, 36311661, 23463716, 38425333, 16963562, 86559424, 29922489, 98320899, 59200062,
   15125533, 75327468, 74471365, 11273176, 30396815, 20284419, 52728567, 25345211, 63503449, 79715720, 60694627, 54806322,
   37501992, 33815688, 1804683, 55507105, 40030772, 29899086, 16600015, 44258331, 15459317, 15018220, 12255771, 21853361,
   34136933, 25780680, 8090287, 27582599, 44897715, 544151, 70114725, 33739759, 36348172, 41646669, 42233077, 39269667,
   80806710, 17346254, 73210062, 10804524, 67047186, 23314554, 72649845, 71051460, 71983764, 89658605, 63087864, 86413169,
   36323123, 40703967, 32333432, 94727414, 68457647, 69350966, 47814694, 92803046, 54401175, 95690540, 9208952, 56054568,
   26420840, 67784173, 65341693, 63572142, 30416954, 78883978, 35084809, 97008581, 38351151, 50132704, 29691249, 69658976,
   16633890, 95178009, 26572310, 10933996, 80939488, 35571618, 71693989, 66602696, 34775721, 26153005, 56461837, 27485594,
   83446723, 98919565, 82274254, 38830352, 63554031, 11265147, 57096008, 66652926, 554781, 46484628, 7083785, 23376992,
   39036489, 25544831, 83298909, 79475832, 80321784, 68512221, 80630211, 34227645, 82802220, 10225511, 89317870, 85321362,
   82343796, 72202960, 35139478, 92407576, 54973411, 61100207, 66234630, 5750410, 97690605, 55994331, 40440437, 21011705,
   53528589, 55835011, 88772103, 4342076, 51163458, 64547517, 51081393, 12253586, 13690752, 87644703, 82659849, 91566074,
   65739843, 85078980, 21085429, 68795954, 76660101, 78709063, 67805425, 60297599, 29307292, 49658587, 14550955, 64688046,
   21742718, 9418492, 63272430, 75836942, 46637814, 11895080, 10144440, 78192244, 15786172, 66365418, 36957628, 63175807,
   19034689, 41412364, 64026521, 95105839, 97725983, 34180794, 57374619, 62120769, 6458557, 52790676, 87476456, 95660116,
   82613080, 46243923, 19245126, 10522006, 36616464, 21207831, 29243910, 57446542, 53563916, 55921616, 20407286, 10579042,
   18454382, 77793544, 4357062, 54114241, 93895287, 44035048, 89477253, 97864775, 84166532, 74930354, 4649447, 67644668,
   56108968, 27289611, 48529473, 10065295, 75327537, 33607474, 65954025, 64540467, 64798978, 72867812, 69134449, 97646950,
   27363686, 81295688, 22465322, 31427861, 91577220, 77238483, 62793332, 84339102, 81449642, 84002634, 22416938, 67888159,
   31972150, 32127556, 77417900, 63809421, 1175990, 68521484, 21185120, 10666704, 79983043, 83475284, 5633493, 53089371,
   87997847, 11997833, 56471951, 27977338, 72117712, 20965668, 52601412, 97368788, 50103509, 10713501, 24266725, 48025342,
   5605848, 47019819, 48412391, 51813175, 25752548, 36340346, 27404283, 73980742, 98189588, 49251762, 80223830, 25119331,
   60252246, 80439761, 10687828, 14757572, 99663701, 89626346, 21360322, 30150199, 80423555, 53713036, 82510108, 37133555,
   81860939, 67531250, 90325473, 88645332, 15504686, 34799987, 59569084, 5139103, 67398519, 57850326, 64401755, 3527941,
   89141259, 2852972, 55311136, 53686873, 68203553, 16261800, 56229441, 58371849, 51330906, 80556148, 11477167, 80372645,
   34593450, 11784922, 84477201, 85411867, 22748139, 90299954, 74568296, 38402401, 63386382, 14132569, 28105124, 31876412,
   88895017, 73956336, 76150651, 43324111, 63559928, 20053546, 99768310, 3030672, 68047139, 97545161, 95528261, 65017057,
   79474093, 70109612, 53141551, 57849540, 88480887, 86874324, 62590618, 72534477, 37801576, 75345480, 61320332, 26239643,
   50673106, 97803255, 62364432, 6629475, 57301688, 9041320, 83145003, 5647326, 23221274, 78243931, 85806727, 93954758,
   14538436, 57013019, 48809983, 65506666, 51432840, 30546824, 12971435, 81224764, 416376, 46869072, 46187696, 53660633,
   63899801, 66007791, 84342452, 86237353, 31315105, 3116412, 5296891, 61193321, 26525162, 27030357, 72376039, 58493190,
   8242237, 5328385, 804281, 82515476, 19681666, 92635260, 19545734, 5634218, 38445443, 8963433, 59686456, 57558882,
   68423643, 8179247, 92255985, 83098036, 22727148, 13853772, 76675823, 62345536, 88009997, 2269051, 45639688, 99685903,
   74410825, 82419271, 64194665, 8885759, 85117519, 17273110, 90208344, 7662099, 64896458, 27192983, 91267372, 10607285,
   42406407, 28774517, 88948134, 99488172, 11453781, 42460865, 2349503, 54045500, 84307033, 20445868, 29234679, 80475217,
   35382634, 8367592, 79295112, 83447062, 73110281, 3107911, 64272885, 75167774, 29725960, 54560513, 68484601, 68200582,
   63383996, 95851701, 2214040, 54053682, 58558224, 79234913, 7114363, 33220188, 81921198, 23008292, 81664746, 61482075,
   93489193, 93106309, 66299532, 52099202, 50943131, 39973679, 75445549, 99103784, 71232827, 19042698, 16621742, 3111267,
   89200664, 52560667, 27195387, 91201463, 74940202, 40432661, 98484208, 12888993, 84523501, 75655493, 90283157, 52226619,
   96900745, 33325553, 91258667, 22722181, 86378791, 25669704, 42330438, 16428369, 74637051, 582966, 7414710, 33293490,
   42519587, 41349573, 74643936, 57418309, 23162268, 6108557, 66253675, 86161326, 75607332, 81333337, 31911382, 34027677,
   7377880, 41450387, 91629901, 73792597, 86885797, 18455265, 59289805, 96160601, 14834123, 92738841, 30108590, 16392334,
   39060205, 74464615, 59549870, 25688551, 65741321, 47094412, 2647236, 5495652, 52680134, 52411877, 54831582, 62757966,
   83710440, 99892468, 45108625, 83235023, 85094628, 3508217, 37152185, 65035280, 57166499, 42307362, 88978336, 62620497,
   46945714, 86065501, 19815239, 30581288, 81117359, 87943494, 43870532, 804893, 20488196, 69447936, 94406622, 55834988,
   57646083, 71575002, 88765846, 3614953, 43532822, 97642924, 93350738, 75802406, 36251917, 32684663, 63807293, 64247697,
   76691610, 74777084, 66963022, 37753268, 83928486, 12852502, 68227794, 57092569, 67224490, 56522285, 8940017, 24037009,
   22519156, 79211201, 36199114, 15016374, 20701905, 36041143, 90194717, 38201448, 1712630, 17789636, 45184436, 42894961,
   59218633, 17948831, 58393673, 106350, 77515294, 62503625, 38178081, 65481109, 50993722, 23010538, 77713655, 51326060,
   30568474, 1148050, 98255741, 15385883, 26779293, 26199647, 62994627, 73368072, 14049079, 10308543, 34259981, 44476649,
   34728955, 66806710, 43727709, 66836973, 82616885, 75766961, 66741133, 94196264, 13818482, 1406723, 49243748, 49751837,
   52253577, 76705411, 17684905, 72573654, 35549676, 56770675, 46176584, 71735483, 58649027, 75382583, 31101261, 79942077,
   66658113, 59855145, 77145766, 22063647, 33618219, 17433707, 99655858, 66010516, 31288529, 36346334, 25235644, 80883814,
   71597816, 67076833, 9196332, 97265118, 73508678, 4821292, 56036719, 22122463, 49753996, 66091090, 92652119, 52407887,
   75792947, 38754824, 52213839, 49002848, 85037436, 42948885, 20907274, 36544967, 71868121, 18659322, 10143048, 53191035,
   96205352, 59091484, 27586128, 66200885, 27669655, 63297900, 17031431, 88672922, 77077014, 1428283, 65293308, 43991776,
   71428979, 99596885, 28982212, 75241397, 1098823, 35536502, 53786762, 17841098, 32366734, 68340131, 54826856, 79554219,
   49786945, 8990611, 84276182, 68127976, 74251362, 62163307, 25358660, 73540157, 92884327, 27540647, 99834784, 43657618,
   61349668, 75839593, 95761173, 43497543, 504692, 16449658, 5553493, 66552871, 31106368, 81441848, 95185136, 75838708,
   14049751, 83766896, 70654086, 75026739, 98897177, 27824407, 56369554, 48745378, 29565998, 14350307, 40957630, 7439620,
   95446217, 30213769, 62496110, 71623547, 71461081, 43966015, 52614208, 63237032, 36623659, 73050022, 71460702, 80911859,
   54029928, 6105973, 51238563, 89299378, 80265888, 25111261, 44844600, 33254930, 67049760, 71237331, 18344587, 39519823,
   60028429, 24793730, 41178884, 98208031, 87374126, 81132037, 55721490, 50630472, 65051694, 37879996, 45885164, 88114454,
   23211695, 80307750, 3871727, 52869569, 72410780, 6659346, 11729937, 91865041, 69801221, 51059971, 29048109, 87435010,
   51983460, 8879138, 55583435, 90688012, 26783804, 46806877, 70586888, 59874677, 35445332, 48610639, 78713713, 58094727,
   84572510, 15390896, 23236853, 72765369, 25545616, 99466199, 33181698, 94340283, 73203602, 98562236, 53548478, 32759505,
   11841286, 16106190, 16916771, 40976016, 27416201, 25745594, 96101079, 77446011, 42084366, 792469, 61028664, 71969517,
   63597505, 21621763, 18337338, 58607279, 79640612, 27933946, 30231582, 10334545, 37775611, 78947663, 17040005, 3641133,
   12059839, 79658094, 35180360, 5399083, 65385451, 39961908, 15234008, 37691994, 52715813, 83246213, 71746769, 17018527,
   59351119, 30025214, 84799120, 78515109, 63686475, 92762060, 78446704, 53869227, 51068429, 44955490, 87463841, 97677702,
   47347676, 46490023, 74153338, 92946197, 48552179, 31829516, 80784130, 20705545, 66024423, 4484909, 38715622, 38576292,
   80430044, 89862181, 41947030, 85253632, 93429740, 70978281, 90553100, 43176809, 83274263, 20606013, 19310309, 18849694,
   91255706, 30021679, 67275026, 85226819, 31900795, 14491049, 27839716, 20685818, 90079082, 31597866, 17743275, 63437417,
   56017897, 62519039, 50901946, 44263192, 51360804, 26931146, 77024118, 71924495, 70499735, 98257822, 32383308, 84970334,
   36627498, 16593300, 15780227, 12788545, 41865480, 662889, 51705069, 63492687, 27606670, 65029711, 39214179, 57013439,
   84299619, 2710952, 29938832, 49709017, 30282497, 18274374, 77603894, 2572665, 60964205, 68213520, 40335992, 57218125,
   69642376, 95890862, 29699468, 38263344, 38434472, 72061936, 76597777, 21346227, 75615608, 63060682, 5175565, 85736878,
   58785157, 21957158, 96224546, 15275921, 41960892, 78212325, 22637157, 4319838, 1299936, 98868162, 18340901, 60975672,
   52582176, 55753662, 37057085, 65877780, 76561768, 80771290, 96179812, 70342106, 76511437, 92813339, 89243375, 62972639,
   41976063, 20924426, 65260456, 59894954, 22906730, 3507179, 38938060, 9581742, 13781846, 15166880, 16216235, 24054820,
   24207923, 18499559, 6000797, 25335153, 48766276, 49698867, 74751165, 59160941, 19186629, 90642879, 56654269, 79645906,
   6240435, 82536544, 96280945, 2257633, 38537928, 23034646, 40455539, 77066354, 58935637, 15556094, 75440550, 79043405,
   82623382, 63562823, 86125871, 69892070, 36974422, 60874964, 22726027, 22011003, 6286062, 76471131, 38065565, 95123278,
   25951572, 84403238, 66622894, 97644225, 12503212, 60999946, 26974479, 32154554, 66269532, 37207540, 50662411, 49360844,
   2617257, 77812506, 92324095, 44487218, 78205730, 94295358, 70860996, 17286516, 7254475, 6434369, 4215861, 30523430,
   45289991, 34055597, 33762681, 71898589, 20998915, 26086943, 48447869, 37081475, 1038983, 39013071, 81477828, 257410,
   33391207, 27401065, 84842211, 65163649, 10186958, 32499494, 52404871, 13542765, 19424214, 58917915, 25951554, 76156853,
   14349434, 23034067, 2240505, 16430494, 82562946, 93707921, 55381928, 68251139, 65168089, 2830187, 89791208, 20755002,
   81295375, 94931467, 52347069, 80771571, 88312184, 44132069, 96893612, 41348847, 19485684, 77462069, 49533835, 55345553,
   98169500, 33597774, 38600745, 74853297, 86958157, 31855623, 53813330, 5991211, 34267954, 13806171, 30226402, 30054318,
   39700660, 36280986, 65277772, 21415297, 53091876, 74568013, 18503701, 99309808, 68238553, 91879661, 82949847, 30507349,
   90099740, 52758779, 65065191, 57712958, 65261716, 80212811, 98240862, 66097620, 73737975, 55289803, 15565232, 22980176,
   92102223, 88880102, 24331953, 87472378, 60036255, 99339055, 38657410, 36312502, 49182046, 84591807, 29355659, 27978646,
   95415318, 65941144, 73871100, 31622935, 8924221, 42407389, 13675015, 53579157, 79900902, 34790068, 34310894, 25977546,
   77147914, 78356035, 44877095, 20746532, 23479697, 59116495, 10694433, 27749781, 4954085, 78365273, 24741837, 94339916,
   32575452, 65436203, 47943179, 57749277, 662587, 38842365, 75914103, 97080150, 60679363, 32955230, 36130345, 22154209,
   66834979, 46311044, 51622767, 22733982, 32121297, 25840676, 5109049, 32824607, 81312466, 64229907, 11560114, 21675812,
   27502577, 36417417, 90129224, 71895157, 14917921, 74720809, 17771364, 35438711, 42196099, 16755447, 4687412, 93578254,
   29788970, 17296328, 27709559, 61245686, 42257710, 33790927, 79582531, 55619656, 97611676, 13973733, 68340556, 72052196,
   7062108, 9806003, 49733348, 56511361, 35451307, 67662940, 81485754, 99190860, 40757199, 65527414, 38504400, 21571345,
   4435229, 4401117, 51202203, 26494173, 99401980, 48784588, 35969026, 20684221, 60977964, 19937260, 14657749, 20408824,
   27943430, 2503592, 74579893, 58977940, 99234749, 35696122, 96568363, 70398686, 37305205, 59945245, 76860646, 83789551,
   16195162, 81569137, 74916143, 19940906, 91688279, 81278930, 88038443, 84464027, 37810515, 33153630, 54298557, 54968978,
   57165711, 83340168, 9208572, 72929668, 83660045, 4647652, 48946241, 38810565, 22948381, 67631555, 53925851, 46814621,
   4269457, 40763361, 15375856, 73211071, 81166784, 17948686, 42439597, 33765081, 1235887, 64321899, 64323647, 6741455,
   99640752, 80549938, 18172123, 3298876, 96605594, 81565683, 1629810, 47865914, 39999358, 83514917, 56246882, 66600251,
   46928843, 22768100, 34796373, 69565544, 37680139, 74625200, 7815836, 46386648, 65897420, 69358327, 67738655, 98283090,
   98381853, 11826421, 32146101, 79460363, 43875389, 63208599, 524465, 32325654, 50316610, 60413263, 17257934, 23865179,
   60735740, 56306389, 28746772, 45836415, 16126051, 6129180, 47268914, 89839373, 95153466, 96116567, 66170064, 43882225,
   58721177, 77638155, 46102236, 5632917, 25947441, 736864, 69271377, 75808619, 96252579, 93802966, 35519270, 1068607,
   51358975, 738444, 29416095, 84919594, 1035903, 14126639, 5161486, 30742838, 88741280, 35698466, 36840257, 47550637,
   22834702, 39143447, 79200251, 22267329, 91744216, 27063849, 8302088, 17318622, 73210395, 61729895, 28926950, 89712255,
   53022839, 73665786, 84373554, 20342227, 37858503, 26609429, 36253801, 43279649, 75152181, 44622667, 54952359, 8905955,
   85356929, 93649345, 59895691, 28697486, 73364010, 49673315, 16249007, 51824402, 23468011, 78799361, 39149060, 24927638,
   1272912, 5095765, 69224439, 26393823, 59536103, 25363375, 11288173, 46131199, 14862497, 43798168, 79116850, 56567753,
   82535133, 59121134, 54415086, 98324081, 92983474, 61795182, 98386136, 97688607, 91419456, 12475977, 37299233, 11277177,
   80171405, 15641842, 23136542, 52164901, 97883228, 79959829, 73429871, 9141442, 28582173, 21984904, 74252276, 7324786,
   12742405, 45579669, 2156257, 93831947, 98578588, 76912468, 57976982, 20958171, 4590357, 28761742, 7353160, 41927917,
   16541714, 30370195, 3257381, 77270819, 74426765, 25901896, 90402733, 75830576, 76437380, 74061827, 20734321, 11732152,
   95322884, 84926041, 92571302, 1257936, 9899834, 67924985, 68423442, 76623934, 74821223, 6213348, 20554744, 20770022,
   79398375, 82071651, 47345530, 57420685, 65011107, 44806880, 58716851, 94680537, 49630979, 36615992, 17532594, 98246868,
   21229767, 63990792, 7768075, 27729058, 48248401, 70670210, 66668036, 34657528, 66509317, 701896, 60008511, 42056579,
   55441582, 34566886, 4154295, 21322265, 26947295, 88427853, 71638735, 2508632, 56379468, 60385167, 66953010, 31099287,
   86145330, 85216137, 40851281, 31310372, 74833987, 40696246, 21270075, 98900943, 72696011, 50362046, 23056815, 4433876,
   3062311, 20522235, 59925211, 74692169, 20025843, 77752419, 85782888, 35390440, 35945710, 9765613, 11289657, 111489,
   68773786, 15420946, 94000773, 62528975, 17163805, 86759715, 28280476, 40593529, 11281551, 19304469, 12438644, 34959167,
   87292773, 17821168, 70759980, 15751760, 53194478, 18264990, 77008026, 17068683, 96941731, 9408025, 18427028, 91207859,
   33516090, 60822304, 17071684, 35953208, 31303581, 85217009, 47453388, 464207, 50182367, 6894592, 24789946, 32229561,
   60664729, 23818031, 29417967, 74758886, 87253067, 84795951, 92201018, 93112782, 1948385, 46672685, 35911055, 84135670,
   77201343, 39347359, 54275830, 72004656, 94796414, 30040873, 8296087, 59294382, 10416577, 76898871, 80993820, 96709428,
   63706770, 89478246, 78201937, 88189757, 18186525, 85431728, 65745464, 73126273, 4437585, 7669687, 98778774, 80927842,
   9292151, 88004502, 67942408, 95372108, 12843532, 61057467, 517081, 53109782, 9015473, 29483675, 70047564, 85032935,
   19698359, 60477788, 75046008, 61859149, 82797988, 47148248, 38703289, 58731088, 56286642, 9655080, 83646287, 34431157,
   58325828, 17132912, 85742313, 37504419, 48959757, 79368612, 64511756, 90796336, 66759718, 5748285, 25971770, 72644666,
   24896450, 58108064, 48162971, 94808743, 41415395, 21650085, 56243478, 82447324, 61290804, 61074022, 32433669, 38579630,
   96541703, 39527705, 34622622, 24101541, 3264273, 49244827, 28373542, 34087642, 77865356, 9053039, 85245338, 61578417,
   45581326, 98639950, 48443438, 46241544, 65049929, 49243639, 61478415, 25033026, 53714300, 31383546, 39770267, 13375671,
   55245145, 37984292, 82772880, 43611100, 42107840, 99599133, 75708618, 97765252, 91215332, 72164888, 31808390, 74926083,
   98496449, 42496042, 78354039, 88771693, 42500856, 7755864, 89324589, 79054947, 5794701, 98219107, 74948996, 32929325,
   82303726, 37404518, 24183409, 89002449, 6392443, 3618245, 49088622, 47582721, 23779334, 82015309, 10975917, 7278745,
   15083619, 10028143, 32279503, 39989939, 32326280, 24057300, 66351719, 31290690, 81260962, 64542070, 96535955, 953299,
   70423152, 4345299, 82740279, 90024482, 90422181, 72254408, 83593632, 33070943, 29940742, 9248510, 53038295, 47814763,
   8709895, 32360081, 87485041, 65297019, 44140850, 92456245, 69681406, 68277252, 85720637, 48056312, 76344119, 16071506,
   49989972, 18133005, 93726133, 75251171, 50084662, 77223043, 71940569, 3152138, 18938678, 44261779, 39963619, 74502452,
   45061401, 46895532, 62438526, 36214281, 78644525, 69876665, 65871710, 8840461, 33301213, 54081333, 2313919, 75028148,
   94939567, 2970534, 71224050, 89751669, 90204335, 60244615, 67267458, 7160441, 16305640, 40175129, 76242039, 45320387,
   14137872, 76988462, 67364062, 19792616, 53783611, 35067358, 2796153, 80814233, 53457586, 27428141, 47160295, 12496,
   56391425, 63299350, 76789699, 95881032, 90120694, 4519437, 27837846, 22793509, 42369866, 52131561, 25963588, 73679407,
   98666063, 63857960, 50175358, 13524981, 13266902, 83671144, 89578762, 77506847, 76342264, 8866240, 63208557, 66385874,
   33922286, 33105636, 7060200, 14079159, 22289602, 37466215, 5364280, 66640129, 17362082, 6004054, 16916310, 78089129,
   27430439, 52061508, 20547904, 47986124, 61701518, 7213580, 38236912, 77327677, 73785210, 18374481, 70805166, 48206502,
   43085638, 43681233, 38588706, 78110248, 74267977, 92505636, 55841498, 89772923, 92212655, 55387911, 8179314, 61510962,
   93779891, 28737074, 99568801, 21308224, 5366154, 34470940, 28869501, 85293730, 15891529, 64725224, 57487035, 15544396,
   84290565, 31473327, 25046548, 76256971, 54407898, 33144625, 67648637, 34749867, 48255265, 52402511, 45670339, 81589794,
   19751859, 34085969, 96636120, 62672559, 32533337, 19679592, 99115534, 23603066, 93235343, 14915939, 14268792, 32726119,
   90353799, 21279741, 51968876, 31121133, 9772276, 52397754, 97966135, 99570985, 59239829, 25648730, 87185556, 29389505,
   51917404, 24307871, 38352269, 69690969, 91053703, 91257833, 2674995, 58249293, 60577860, 30408970, 85893980, 20642553,
   24887650, 11519619, 69278559, 82329902, 58495550, 89177289, 93291972, 44886260, 72779782, 85536007, 52863095, 11520475,
   62075368, 43553879, 6713267, 86290128, 56912670, 71664322, 96283578, 77943305, 39822954, 92252248, 15224409, 44875175,
   1417980, 61845521, 76981649, 74762782, 94991228, 11511593, 7180864, 23810300, 85081888, 22911478, 62634653, 43681612,
   14477933, 48107394, 25812605, 88623364, 10074447, 43455591, 38906212, 45724870, 27431705, 93721008, 71946377, 14358640,
   1018839, 15179305, 77594115, 406452, 66114724, 39955504, 38238487, 79324856, 91013887, 65451996, 38471965, 1243195,
   51396388, 67622393, 25378452, 4095450, 71484545, 59772396, 47468569, 78696248, 16792205, 89713863, 2048295, 34445833,
   87328061, 24155385, 14139728, 25725691, 73134886, 74844800, 73535936, 32250411, 41343572, 69916220, 9155154, 52849280,
   92369782, 80762701, 35461395, 96873877, 59688897, 31838155, 26230802, 25341846, 19309326, 82892012, 11806437, 9962958,
   45261523, 76644147, 84888605, 21501853, 47105532, 59951741, 39163645, 34204853, 94895761, 56724582, 41625946, 550682,
   33777193, 78754590, 51543033, 80740676, 5091217, 41008169, 29378655, 26297862, 23498053, 2122218, 62463205, 55379599,
   83551016, 24716837, 43725731, 61255020, 26922911, 90554144, 34030252, 96879735, 67732488, 53443695, 27300093, 18887273,
   18327260, 77472825, 83164445, 10763368, 57454226, 44472411, 8202819, 34661990, 55917490, 75815988, 25735352, 93412972,
   57252300, 762031, 53476040, 51695497, 6544841, 93126835, 84413173, 55714954, 74785203, 4692538, 31269795, 99644814,
   15049694, 19755000, 14589172, 98331231, 91706680, 84654510, 6351357, 32098444, 83014431, 17199913, 46732541, 57417897,
   26563854, 43107915, 80843686, 66454384, 97122800, 73572368, 66509070, 55976457, 99035073, 81754354, 94249158, 67086550,
   60129957, 51734703, 78097507, 34915571, 43989432, 18605650, 94485908, 50347725, 47493114, 60731134, 26029944, 21023832,
   6396469, 31189644, 92429488, 57035670, 42254824, 93673195, 91449962, 84509806, 94925452, 29000831, 12714064, 98909235,
   81120862, 11682692, 99786272, 74285088, 37429263, 97047013, 56952058, 48317920, 95672576, 59870818, 29085555, 7116849,
   42204803, 54179132, 5504963, 51752680, 96522216, 95354961, 11471237, 91755340, 72588145, 56134052, 31841562, 70453944,
   55610599, 87074231, 25622161, 47506303, 42995663, 11855180, 1396555, 10297109, 15415997, 25461010, 3654364, 91005620,
   83610635, 2390524, 37862256, 84886202, 92484321, 70811088, 78219410, 76762283, 81872362, 23812693, 96515141, 99413065,
   11930302, 9109095, 49655183, 62381753, 89696158, 72332563, 57336703, 64231780, 65358445, 9246934, 97017862, 49213371,
   4521822, 68505212, 87316468, 83195096, 40641437, 8750460, 78819625, 338192, 37157570, 64214933, 54389910, 39982275,
   68048516, 25286940, 24114855, 88431127, 55474708, 30659349, 55345485, 43167218, 45972013, 88159070, 77261198, 50758425,
   54985179, 46269509, 65017425, 81003962, 85060876, 62313213, 50033416, 24021106, 70893925, 98352379, 995778, 28874933,
   64105212, 11169411, 43275427, 83001983, 29691325, 53706872, 94074781, 90728670, 15792244, 51009610, 74785015, 40813071,
   10649145, 60272760, 27446969, 82973064, 35267051, 33958386, 16787812, 82745325, 46053510, 71344862, 38708986, 25159967,
   49342974, 1656341, 84027077, 98117025, 76169708, 8927332, 17374993, 32529108, 29165138, 55477800, 26480901, 61146992,
   82756822, 69102793, 13568048, 63707958, 77949260, 9875583, 88018141, 77892700, 74376496, 6234563, 63684477, 8485587,
   99050257, 3433515, 49983038, 18028141, 22119321, 92262333, 27406149, 64998608, 29502722, 60982730, 85166861, 76120013,
   96852606, 81177688, 49556103, 30624026, 99518416, 19522376, 89705635, 91045484, 20683109, 93459743, 25478455, 39510582,
   20762505, 23290948, 66903111, 81003303, 61224900, 97555603, 15457816, 67119037, 68003826, 86736676, 40060802, 33127496,
   95989584, 88927140, 88664197, 40350567, 75975530, 86548803, 94458326, 85613264, 38032598, 75239931, 18313557, 72187701,
   14318960, 41263085, 99252813, 57123010, 44611063, 60739335, 58448237, 36910433, 69121286, 91693142, 90165085, 38288655,
   50049886, 38497450, 21651421, 57486529, 94041960, 61196138, 14722816, 50067531, 26053973, 90505663, 35513555, 47372550,
   96814279, 70640774, 84286115, 49278407, 34820902, 58393473, 82151671, 45984126, 87183951, 80922346, 81780410, 47974627,
   24339214, 80291408, 10610728, 59205489, 11997342, 86872418, 52884072, 93616749, 82240004, 46633087, 44956015, 19539117,
   3885647, 8963105, 52783665, 21859093, 99590181, 52276704, 76803385, 60234063, 18346681, 96142412, 79130271, 96727909,
   94843214, 60093673, 86016261, 11577027, 38109290, 70500106, 33839836, 83198845, 81017893, 71889965, 84808646, 58429607,
   78204325, 27861631, 92162376, 15028496, 12989048, 31460472, 47124415, 33291617, 74858452, 14791308, 86282549, 73989827,
   87075978, 57004938, 7742266, 22045493, 14767420, 56631170, 19719044, 55580562, 55725529, 54620643, 72687634, 86877762,
   36102859, 50656122, 48365984, 50762595, 24193184, 59534013, 6780785, 81869092, 49379429, 45464738, 72837058, 4903450,
   2772146, 23888339, 73477638, 40398473, 58341035, 97479515, 68388249, 45838759, 94129201, 39525707, 22079970, 52053496,
   34161273, 86341811, 65371359, 29618718, 82860800, 16518531, 94749868, 74618260, 30183102, 5233270, 37148832, 96512512,
   99825781, 19169996, 79331509, 69560734, 49002163, 46209285, 21695129, 87289029, 26845716, 75518791, 44442028, 63967073,
   86453203, 94963745, 49313589, 86872630, 84803794, 72688642, 7875153, 9992398, 65681717, 11982205, 66981187, 71225746,
   72695730, 42606650, 85923000, 63248872, 79550728, 38352465, 23540548, 67890564, 10769036, 91584663, 18119960, 71053121,
   3593120, 11075903, 8432353, 5684529, 9026786, 52068869, 95560468, 55352510, 24383049, 81832378, 80183195, 66771417,
   33044094, 31741896, 2360530, 77840304, 20364214, 16515288, 5302426, 53713848, 23064055, 67948409, 51528660, 86572326,
   29121623, 97194255, 23021926, 5876974, 72289696, 96803452, 27859312, 28256620, 67386969, 1490986, 87861598, 62894967,
   32405147, 69876780, 47813062, 72406294, 2205267, 93442251, 87898270, 92461335, 92204271, 23191025, 98901906, 11741498,
   92118700, 18932433, 37612813, 36184312, 74454659, 91887708, 79277726, 53481140, 57621498, 58731827, 16256811, 12717995,
   65579002, 64262624, 71887223, 73625912, 51030948, 43240915, 58332625, 56681114, 11181572, 74442635, 49360193, 70684353,
   67877394, 41095633, 70571217, 64372223, 85099140, 67376341, 24218895, 97519041, 51610395, 80187368, 45783257, 74499339,
   67200148, 38419565, 58169153, 29468266, 3727825, 76708524, 36891567, 37318530, 48783974, 28147195, 18103324, 75899068,
   35107903, 96308480, 34246046, 36933210, 72930580, 74178028, 63975044, 45561870, 11801929, 10347179, 85792776, 77066101,
   86421650, 84841336, 14756024, 73798672, 60666608, 59909652, 17154471, 81642643, 97572881, 8335783, 10521945, 32742281,
   67882650, 32532854, 44591558, 20384884, 37066437, 15912345, 67937723, 82097624, 63834045, 73290126, 13335468, 18446047,
   93064820, 94582580, 92304693, 26938871, 49170817, 2931926, 91974102, 10648697, 90466608, 41786912, 3359690, 25343437,
   29577851, 24550312, 45124215, 29479585, 8751923, 47327340, 89258717, 17120366, 44361455, 56008179, 65970541, 15418758,
   8084697, 9068597, 55841489, 15088015, 6368186, 62745862, 64057554, 86808460, 57140751, 88259404, 98173866, 85292719,
   89655304, 24204611, 64348072, 2155866, 49550639, 45112668, 38744954, 96502646, 14966557, 98869734, 34224384, 25137034,
   64259871, 67393658, 14294677, 75834555, 23716113, 74751648, 45543864, 27897569, 78564262, 55774797, 58331347, 17061376,
   6570750, 68735835, 25154714, 46581141, 39028442, 19269911, 57306182, 59936261, 84759250, 77372805, 94020962, 46472122,
   39136535, 69303973, 48459992, 80267610, 93616561, 24886342, 33773631, 46593684, 11240811, 52727079, 84655252, 40653388,
   81170272, 1247726, 20694824, 1470231, 24017439, 10721977, 30923171, 76476185, 65873300, 46520129, 40244749, 6096340,
   17108538, 41384545, 20390320, 54748403, 71269226, 13219515, 1241932, 60394919, 55838644, 69081758, 36967035, 17930796,
   83649033, 36436692, 34268411, 86653972, 22819303, 20238270, 59446634, 50369791, 40649627, 93755329, 81941682, 67054945,
   17380296, 31778513, 99828243, 59204133, 4667976, 49637730, 78053981, 2592248, 14903469, 89374137, 46436058, 71893318,
   74617867, 50380115, 49872966, 25565510, 26683627, 66171955, 25096894, 35301240, 51968343, 87637545, 88170011, 17012612,
   59434512, 41680190, 70520666, 11080344, 7589784, 43852289, 68784927, 83325192, 90493846, 68612348, 42555223, 75789069,
   55189453, 93026284, 79017576, 486993, 55594941, 2622996, 83639814, 1327136, 67816716, 97338600, 44420825, 78619772,
   73762128, 63574529, 93277339, 91995672, 6364669, 57505429, 4177400, 47016691, 20967192, 37167434, 57755249, 17077578,
   20222296, 53074521, 24199245, 96533315, 8698184, 59249606, 9845551, 26767255, 95148036, 85366202, 61852495, 20245405,
   13327649, 89514110, 65286792, 94577335, 70873852, 76206562, 28074167, 8479317, 15579533, 51026082, 78769757, 69669078,
   28593068, 63218379, 73610350, 37445344, 83612778, 9010748, 15296505, 60929600, 23327707, 43640178, 78581493, 11906795,
   10586129, 54006120, 83089051, 66773102, 17046728, 89483640, 20471510, 95765679, 20887963, 34809610, 92958146, 22083134,
   66785056, 1763710, 47083442, 97045995, 30827532, 87886734, 69943967, 38560790, 25040210, 3514512, 71726188, 3141139,
   35136828, 18947275, 36959296, 66788982, 38474054, 49437522, 83867887, 29909292, 4215070, 43651466, 72821736, 29958177,
   2745517, 53284505, 59878793, 62829669, 59146761, 39386730, 81730571, 64387702, 82032019, 27607898, 73306065, 71770759,
   16602839, 24799091, 3153939, 6481135, 3954526, 39806757, 86820787, 43437651, 4806716, 60543930, 62266090, 41835016,
   19204127, 92237102, 88524893, 16255587, 95214979, 84282193, 33917649, 60095300, 92664118, 55893313, 15588042, 33714448,
   59121396, 43353780, 18597527, 52357547, 26999849, 12840825, 3148331, 33584603, 62470139, 15699053, 25286056, 41636661,
   87977131, 800060, 49981700, 50518786, 74612692, 27425682, 65931439, 3280597, 73130091, 59649328, 70176349, 94190585,
   45578867, 97334341, 61257830, 91270342, 438400, 80792546, 18503592, 76068637, 13305818, 40785285, 10350310, 3132877,
   76853897, 31227754, 98222325, 16127292, 51867687, 45447211, 10598029, 93189547, 13522760, 87744090, 6357482, 7329465,
   41471524, 40523343, 87363554, 3196796, 99308352, 80847742, 58348088, 55301258, 17550336, 78284197, 30070188, 70398407,
   41699127, 2973576, 53038902, 3223348, 39854491, 9629888, 85165344, 3993231, 22808328, 37490411, 71746026, 95431587,
   30459818, 7567227, 79645299, 15624632, 66440852, 75258646, 27202750, 48585465, 23488063, 44743880, 11533456, 21517480,
   20187491, 45368255, 68903791, 30090595, 38420891, 37436513, 69652466, 64315683, 92156823, 97263709, 49132747, 93802945,
   49036916, 32382917, 5622779, 62421322, 56569145, 22645536, 68194888, 23142865, 36137541, 4180687, 27675397, 14156401,
   69716806, 89391419, 11011713, 81138043, 13587901, 91193256, 73750825, 84939321, 70762433, 85798239, 10291142, 77319257,
   32181018, 36730852, 29894819, 1611741, 89192295, 26205219, 21261672, 26123362, 4089141, 12785717, 37713408, 30241128,
   71288556, 47100760, 30086050, 91991410, 23602460, 54463638, 13005755, 60530010, 46676433, 53021040, 13412855, 22254871,
   14704858, 85076907, 10003712, 6886672, 10264167, 81406817, 83863264, 79260466, 15355971, 12635086, 9882064, 71040915,
   96767145, 90171715, 22709001, 87969938, 96357012, 60305711, 75802730, 78901976, 64344865, 65609010, 8272074, 10831662,
   28599527, 77967951, 75320142, 79363948, 9061879, 4212286, 64545052, 80416350, 50316807, 71231053, 8353891, 58226245,
   80392520, 84370836, 4409238, 58606452, 26480372, 24548108, 27782711, 94732843, 2594267, 17141540, 579328, 18783141,
   15920193, 85458017, 16602110, 42326043, 29092596, 92108283, 43230679, 19301775, 52106807, 66955232, 74011273, 31849460,
   81381462, 75816922, 42314199, 39049903, 16980829, 1620995, 51216205, 24502855, 96915021, 3369050, 22109552, 30204270,
   39616859, 75557704, 97243432, 68347272, 14403009, 64129053, 24237249, 30094248, 7165819, 60087694, 49638699, 43344920,
   21924337, 27825362, 94575314, 40471659, 31836327, 70756899, 84425035, 55005273, 4466849, 67602008, 21870375, 47739698,
   62912567, 39600630, 71811592, 71721629, 60285171, 54863665, 82984949, 43044973, 99108931, 76983626, 76742830, 77361946,
   44350299, 83803008, 46648521, 90536829, 49930405, 6725237, 10502940, 27140038, 99285729, 82142576, 83996140, 82724562,
   3138655, 79886842, 96596785, 73884255, 48633258, 55579719, 75850244, 70124922, 65695569, 42795282, 59429170, 20785558,
   14988522, 98178418, 5450810, 10746962, 26800656, 79583449, 96626597, 40470151, 68450755, 65940287, 55690890, 74319548,
   2904109, 87996841, 4876588, 47156338, 21956186, 8399395, 46799417, 14352666, 910612, 50487337, 81533731, 56515303,
   44037532, 93331627, 89830382, 18182442, 90619529, 78712377, 73349887, 13202084, 56796950, 72369966, 43366652, 55110447,
   49595148, 45683693, 11052072, 94375466, 89682712, 48487872, 67795365, 97698726, 65562925, 51983122, 6959557, 80224499,
   33368808, 73639060, 38810361, 66054189, 96974834, 80990555, 54259225, 73349583, 62494848, 1223871, 94834684, 68908159,
   21492254, 14616983, 20998380, 71445847, 41297988, 39290346, 41884036, 69706629, 36242141, 69460073, 9863530, 50843109,
   15187887, 19451629, 14226629, 50400145, 16320198, 95200564, 81548874, 38523152, 54958507, 6115557, 84095699, 71557689,
   24965813, 23027236, 64954657, 33957194, 98021969, 85053148, 31633524, 56678381, 74184706, 2512594, 47342945, 70582390,
   99369218, 93646785, 26244546, 15317611, 22523445, 30172225, 7892390, 32142046, 68447338, 40165703, 68667639, 70967785,
   20310403, 87100691, 12763504, 77082320, 84177334, 42357195, 20800015, 72119207, 73578532, 57998265, 55939572, 85908430,
   23306970, 1740555, 27208017, 88119896, 9754329, 13478023, 24666916, 57147483, 1806584, 43638431, 96034624, 93040515,
   27773910, 50559179, 21520940, 32375434, 98843621, 19469639, 22127662, 684681, 26119108, 11833595, 29725025, 46998097,
   67395968, 11216562, 98950261, 59809132, 32721982, 29568810, 59958221, 36140287, 92890424, 30067750, 78292760, 25333665,
   46116850, 20242114, 73247716, 28478725, 65397106, 47458151, 48209059, 12288643, 19999065, 45074919, 95466159, 67156683,
   59154807, 45267907, 63276482, 6618101, 49638919, 86654602, 6026862, 39173206, 71168001, 1943776, 18022829, 98611237,
   56538487, 78312272, 64049885, 3515725, 27294680, 42502380, 22142199, 15450773, 82463381, 81467336, 22759059, 73962892,
   83396510, 27360887, 65853617, 91073398, 14107984, 3590306, 21653955, 60888440, 80988145, 12303873, 18208902, 65845906,
   89267288, 40419788, 41178323, 23076832, 49268272, 77995062, 498144, 38159511, 48490514, 79883177, 31250569, 75422779,
   97059668, 27524405, 39804222, 37335962, 45489370, 92904630, 61880038, 45712844, 96075829, 33393530, 74976772, 26740144,
   52535384, 91629139, 60314310, 68037232, 54026140, 78759160, 33902590, 95752221, 88740710, 78105224, 58178875, 60757843,
   39143129, 42305444, 25096038, 29927693, 48385259, 28698561, 7064245, 29586854, 42831228, 88969165, 85429116, 12785418,
   54602940, 52982270, 55527145, 62936116, 23267542, 96629726, 60720940, 18977355, 71819679, 40819693, 42138086, 53276630,
   68953598, 77377739, 93160472, 63041820, 65891802, 39631719, 57756681, 18517583, 51034395, 64212600, 449830, 52437421,
   69338479, 41638957, 86780598, 45414814, 16223784, 26411195, 9609427, 71057194, 23268722, 80077703, 69940322, 78402608,
   8581484, 80546124, 91556724, 64495321, 22750284, 44704779, 31997191, 76904917, 80094342, 22191264, 72820520, 2587938,
   29184572, 75727859, 84614882, 92642903, 815097, 243491, 57715674, 53520940, 60701016, 9520500, 51246533, 38997576,
   14068350, 52524539, 16218279, 27487614, 71523195, 64272653, 98161190, 16666038, 16612411, 9353874, 35591722, 42270820,
   32524538, 16951615, 93679657, 48699770, 21833124, 49988458, 36586334, 52051449, 22541807, 79926889, 23775404, 14778666,
   24706066, 58752799, 32387651, 11905348, 70422864, 37433855, 63685965, 17522318, 12149895, 98318486, 36644887, 51708387,
   10078938, 78638235, 31157383, 5382999, 40790703, 43694738, 74822783, 61021000, 88349479, 28163035, 55169338, 2754495,
   62256299, 94849092, 8478691, 9088822, 85021416, 21838985, 34316504, 4716789, 3541824, 94480077, 84791189, 21270255,
   90242846, 84325557, 4517961, 96416560, 51935149, 39877768, 56139113, 24044006, 43401795, 81782385, 38590143, 15237343,
   70844000, 50162705, 38467971, 67464896, 18298362, 46469038, 51298084, 51373328, 24772931, 47994281, 7034133, 76975536,
   30194200, 34449673, 1863817, 15598394, 36157631, 23245349, 80395231, 93871783, 70996134, 58000661, 85864590, 78438739,
   64703841, 19704776, 36700478, 50219908, 94405230, 3848268, 58220914, 17201055, 83945190, 14573203, 52309873, 56861431,
   59146375, 74388181, 41380020, 35284542, 72563957, 64021147, 3093905, 85332943, 27174168, 11455207, 6544584, 11472240,
   94008266, 3179082, 63825437, 46730510, 69179630, 79458686, 29884746, 37219886, 50788943, 36504823, 69622363, 88265714,
   4610162, 95090300, 98657119, 50826803, 44998075, 54804408, 84227381, 73832041, 46765983, 44224418, 96237324, 95312522,
   69486006, 90023248, 90128734, 65763392, 58410866, 71402082, 57634247, 78587825, 7288080, 98395669, 32527102, 90866094,
   4944273, 55270741, 78902656, 21606094, 85776356, 71997475, 76324466, 7944675, 85918143, 52385652, 10230691, 92748715,
   66694807, 43344247, 44233323, 55855741, 25351399, 4732855, 14617612, 63613096, 40535912, 1650751, 17689833, 24024984,
   30995629, 85355351, 56936228, 44784220, 23284882, 37320834, 66152106, 55586959, 92408230, 98104701, 57565036, 97058123,
   69116617, 84659757, 97267754, 6652943, 60212151, 27781211, 82889533, 32513820, 32321969, 4922603, 19549321, 24452825,
   93545590, 82068458, 55244256, 14639318, 40943500, 78968280, 27259095, 44255495, 39820118, 9138806, 94606628, 3450624,
   77549934, 94142390, 72623768, 25289688, 90491873, 1526791, 46199446, 64274061, 75185796, 48766442, 56835588, 41225822,
   87310799, 41553557, 99384591, 45690641, 26060205, 73342135, 38477882, 42006315, 71527825, 83361311, 47098845, 85986650,
   82521095, 79364249, 46039972, 1299141, 45506351, 61973806, 79110596, 95251128, 97894239, 91524191, 49766244, 88683315,
   6293445, 68753739, 52385885, 55919991, 10156055, 45514812, 25551474, 51409116, 31937394, 59860765, 78658838, 56008774,
   779931, 53978708, 93860551, 22768155, 23214587, 43168852, 36259983, 13518141, 32869399, 105397, 48572659, 79321494,
   32606093, 61152043, 11719922, 32339549, 21081136, 95680258, 82135301, 61408728, 39579133, 70897418, 75797777, 37626870,
   34339688, 75043047, 12221338, 36360525, 46737155, 49782161, 65376345, 86587283, 29487233, 8520479, 23804538, 82235800,
   98395172, 20339139, 81652102, 71981819, 13943411, 57116757, 66973661, 37553193, 17463700, 18939754, 71313222, 51071727,
   20162723, 65712554, 47048938, 12468777, 54963621, 56768909, 66035807, 69223653, 73497771, 7135008, 57055018, 589981,
   73167082, 48939708, 76512070, 77646170, 97523052, 21060979, 26212140, 81222549, 87700395, 92386746, 74088782, 51121327,
   88476659, 5805829, 6582377, 64258931, 58370715, 86002773, 80414804, 77503896, 24315604, 683153, 7547545, 38274050,
   49866433, 41223271, 71041172, 50781046, 86385418, 57028704, 90159686, 1103423, 10531502, 12567212, 40562079, 89347047,
   49575240, 55932664, 3758754, 27183474, 9486908, 57092750, 55164588, 80080140, 83112727, 69603809, 3499370, 79350502,
   23272816, 49456971, 51545146, 71120001, 93506513, 61915260, 20506580, 43853591, 71987374, 8089280, 76912652, 77016884,
   41132676, 89894565, 61810518, 95815619, 6774865, 52833036, 47948978, 24254269, 66865482, 67560013, 23545912, 75631693,
   53182927, 29562195, 62960684, 25119798, 38228861, 78923389, 67694366, 95899260, 13666133, 42567342, 13375146, 64025834,
   637271, 57045112, 87653660, 4912493, 6164324, 83269452, 35511063, 11115127, 84541939, 76603061, 6254770, 45649096,
   38719504, 31209215, 7868650, 19855761, 46600904, 4642029, 78914868, 79604679, 26321080, 9853003, 8267185, 91035716,
   63703944, 42300347, 47657047, 4762239, 92951645, 91556130, 56373786, 91132044, 63306703, 98566852, 3231533, 75698944,
   46555609, 58994047, 78891493, 84363841, 45179229, 62211638, 46151381, 89610743, 6337233, 53246974, 37056637, 9958754,
   97470005, 14658250, 44113309, 17492691, 49847597, 23926118, 44977811, 42423742, 9348329, 47535922, 93182846, 85403013,
   62090379, 42973975, 14155311, 26204956, 62859187, 36501691, 60729368, 16785466, 12101681, 33832833, 51579164, 55516909,
   56979294, 68672841, 602071, 75403129, 62036953, 26791184, 25437894, 5724011, 78191862, 46016366, 24165408, 7486290,
   43039149, 60957992, 52970538, 12830251, 85312506, 92205100, 86842766, 30848953, 12062499, 87608790, 33466, 43012457,
   88520493, 13755501, 22512768, 98330093, 90453839, 57865912, 34084427, 47745283, 68654853, 70080510, 83218364, 70453808,
   61564, 61433621, 60797848, 26425874, 68029442, 91425475, 4746773, 53124023, 88637045, 54386055, 86489676, 5666954,
   94500763, 77717261, 44991237, 68366634, 75183664, 32253860, 53109985, 18534002, 7152551, 85438143, 84316435, 41605665,
   95639073, 20694896, 21421326, 3960276, 4841881, 25069164, 73169270, 32197688, 70714477, 69316054, 93802670, 49514994,
   66153450, 8889550, 88849340, 15105000, 16903576, 32427796, 85706324, 65455316, 87649965, 77213810, 50716593, 73040949,
   46606084, 78331770, 52332576, 75083454, 18438451, 4168988, 43467660, 58253641, 5689294, 15572158, 78244012, 17070272,
   78929813, 8998802, 14916816, 71310903, 38408151, 82808517, 90257804, 82885062, 94756327, 85777097, 26146509, 66405662,
   30558373, 49089773, 32598266, 29583034, 67415890, 14720834, 13917856, 31374650, 19626128, 47033741, 16407286, 96674505,
   57840132, 75938197, 20239529, 63796243, 75769093, 77381629, 73359516, 9421068, 62003220, 57075251, 39667719, 99796250,
   77712445, 73474779, 130007, 8608844, 40475024, 5339162, 42484523, 5533457, 30168886, 66574955, 58391137, 20171932,
   38676451, 735448, 20432604, 42641117, 39480408, 34814349, 87322008, 56022173, 43795184, 80816423, 46587502, 79731915,
   50452660, 74963552, 38038715, 78543533, 33117653, 18478721, 76354599, 2613175, 42846456, 45975895, 84456785, 17560893,
   15002218, 56452827, 72217041, 88046435, 27440775, 89461228, 12258917, 6571409, 98593516, 17719108, 84224668, 31301445,
   43629017, 12768752, 55931512, 87692968, 68966475, 94340602, 31967868, 20037344, 10809150, 87380239, 24032463, 25869226,
   86017736, 15487714, 92205316, 11359135, 98951402, 40483695, 82603469, 27253891, 92503131, 75910739, 21438398, 24883534,
   87946189, 69174922, 28966903, 44044233, 23666732, 87332667, 75016112, 78346128, 56386666, 9921253, 91382472, 61070628,
   55182843, 36588758, 15805537, 75632359, 14011642, 92262833, 22644864, 31525, 59838239, 4389326, 37728448, 17706928,
   34702627, 80691881, 83727777, 26406837, 58638249, 91384070, 49787263, 36585943, 89978735, 75813055, 29011711, 71666059,
   50224950, 47408601, 7322298, 16822021, 67104625, 44293645, 19465493, 3473343, 64508134, 44859912, 35211565, 33051270,
   52391175, 44213852, 87595787, 97276536, 51429164, 34260264, 75538177, 80304263, 56533846, 58862836, 96216613, 88123157,
   57681972, 52394642, 41420657, 87638602, 33722886, 47517693, 7937528, 49937830, 66059504, 13066424, 61413745, 95373499,
   86974854, 61852758, 45949870, 77827722, 6391748, 64157338, 86917957, 76880341, 51595600, 19984538, 86640204, 93190205,
   48661735, 7699855, 87526681, 46598089, 42284267, 91075395, 56759923, 82674450, 81439709, 60224497, 16895699, 25019745,
   52121036, 26923834, 69941583, 97198753, 41834991, 16006804, 99627797, 26114398, 64094254, 53313723, 65710794, 66110146,
   9853741, 10269318, 87533392, 38935502, 1009265, 77947289, 12447147, 83637563, 1607664, 48341361, 60281011, 51649966,
   89717122, 29254804, 56065689, 67614745, 56808057, 75675515, 85684174, 1210492, 12454345, 94564648, 81069370, 85739218,
   99846173, 53184283, 55999299, 6906429, 63545542, 78355693, 56639013, 11801889, 10953246, 86347346, 20410996, 62830184,
   20461026, 67074973, 72418239, 72608833, 68502034, 50112467, 19794823, 6590357, 32769545, 61568309, 98396546, 39420012,
   76802160, 60867202, 83944329, 48519985, 9301160, 838657, 40034307, 59126378, 93861489, 20223040, 27564508, 85144678,
   19355115, 31010687, 68822894, 85850366, 34645378, 34162086, 55564323, 51564632, 14862967, 76387816, 96044787, 20687968,
   51738634, 40971098, 99574133, 7423201, 80931290, 11948091, 73311240, 27883309, 817305, 70465455, 61227391, 11546698,
   6911604, 97759203, 27065483, 79389206, 46994380, 71157159, 63306508, 6264520, 29954860, 46413087, 22733178, 47975810,
   17793484, 69751470, 31941463, 348630, 72192202, 86578922, 93494762, 71395252, 92460893, 1579171, 99677916, 92209990,
   92288265, 56595837, 66488272, 73919073, 64108284, 5742733, 40750811, 39903252, 99329084, 89793666, 37476978, 61273745,
   15589921, 4125443, 75539128, 42635667, 90337157, 83933198, 12971731, 27810744, 16070717, 51080974, 10021373, 53991743,
   97055047, 9606227, 5934671, 94478081, 96239013, 18230895, 75369786, 40607354, 35794014, 5888879, 82197626, 74426333,
   77551955, 78254438, 46910032, 68928146, 29064160, 2025164, 41135059, 65539413, 63334139, 92789744, 69306532, 81814775,
   23467561, 86178495, 54722455, 81374910, 59890419, 65892571, 61153555, 22349279, 69007712, 64260738, 74508764, 56941823,
   95479547, 64603228, 74861394, 7230974, 33457075, 64746352, 90259904, 99067656, 27498459, 48322960, 50836878, 59188407,
   10670034, 59030733, 88155201, 85677174, 72980634, 60446293, 36446907, 79487314, 62273559, 45612377, 81839308, 20928270,
   81801738, 46043349, 55356037, 51255726, 26638740, 74478131, 19455620, 3422368, 67945594, 62514538, 3326551, 62858745,
   87242810, 9670331, 60442846, 39267240, 95821445, 94716838, 18136688, 20217745, 21727062, 68984083, 94416722, 36589090,
   97266581, 93248305, 88470526, 82481092, 82909013, 59560856, 23445734, 55624589, 7496128, 50592281, 7152253, 43120836,
   39996703, 84989408, 39768077, 12678204, 78194882, 39461882, 93288858, 71190232, 2992012, 46374609, 3790322, 94960168,
   61969045, 34195864, 72325882, 66062053, 71674372, 79477569, 52702535, 3038168, 35436201, 60850156, 24219987, 60282840,
   51240328, 98837394, 54826854, 81425321, 73584188, 52981443, 19484704, 3622626, 46401371, 90887125, 24428249, 71300727,
   7925959, 16428158, 50062631, 39099792, 20187565, 73770499, 78202457, 73559472, 48447717, 31438047, 36660439, 70165333,
   76673936, 11073872, 77243796, 64104608, 44618532, 14802028, 47187221, 42455173, 50009608, 5268145, 83244137, 96195038,
   7921182, 81718886, 69773059, 21518346, 58733375, 58463491, 40399758, 33305287, 91060034, 80945796, 33455468, 89057013,
   54575898, 71911950, 98255323, 97028799, 20457619, 11753407, 16987444, 31810086, 47260747, 92896280, 57849509, 64993917,
   81426182, 8501631, 46942986, 38312115, 10897673, 52049888, 71029883, 47135929, 8604130, 12196305, 30669337, 44644037,
   58313723, 62147206, 45608177, 39761354, 72368613, 21800081, 7456332, 19415247, 49096985, 13831725, 22254353, 38820054,
   11592943, 40837790, 95940367, 5914110, 71676548, 46343819, 3355663, 91120658, 67246548, 80517210, 79277791, 6468044,
   59713134, 9711098, 84075932, 29518108, 45714357, 63807965, 74820342, 88736251, 23095147, 33809489, 58823708, 99407829,
   40865136, 99404090, 86175129, 37799631, 24429650, 95069306, 51511752, 58349126, 95342704, 98266858, 58439286, 33134423,
   11583634, 18665984, 110236, 60441298, 66765068, 20368622, 78666348, 76373247, 48652285, 45584499, 76847540, 25375584,
   50099838, 1309961, 14302046, 35124428, 13159081, 32977972, 11476675, 22567262, 5114733, 38380619, 42689371, 29169957,
   48194593, 4885170, 29832358, 65788092, 76268968, 27812030, 59124279, 19597601, 52818993, 26384814, 24774155, 35390298,
   74160998, 12440130, 38699007, 51314174, 6587221, 32049736, 44404026, 69082028, 51127116, 31498450, 16238154, 43108759,
   31649949, 45858789, 8342538, 56510344, 24710421, 9587277, 68178906, 38659255, 83967325, 53097474, 16495096, 68061940,
   92894537, 82928497, 44167902, 36922751, 98265411, 51122060, 8885924, 94758069, 99733352, 92736670, 52576997, 51625370,
   71203749, 67728211, 92971293, 62366020, 62173928, 86164649, 28870822, 32168130, 7390647, 17577972, 92141103, 70172734,
   42529705, 71413835, 61576188, 94380522, 75411544, 96677190, 10739682, 90362674, 13646553, 34825500, 81439587, 2459228,
   94710843, 68990430, 54048678, 92454563, 31557157, 9932095, 60545433, 36397525, 6051869, 83471076, 27074640, 42102841,
   81411305, 1018458, 97781232, 89533439, 45503848, 4865397, 73570607, 1721262, 37327713, 29885128, 5355479, 91942715,
   85285587, 32187950, 39861704, 19422100, 73308850, 64288612, 12730103, 62082991, 53237447, 23303914, 67393021, 56091635,
   69794336, 51317628, 38364502, 24250379, 81829651, 31803474, 68946689, 38335966, 13724294, 59187587, 17632633, 33187546,
   51801286, 81009464, 97457956, 86051673, 51248068, 87190737, 10343058, 31650226, 97428448, 40859163, 23543673, 76017130,
   30837793, 19675479, 24144880, 71528808, 3231980, 89725437, 41148938, 73313571, 39445452, 18154091, 98483107, 87472676,
   20719551, 6928889, 2339849, 74712991, 88346913, 93689322, 18668564, 1579075, 20582429, 33259272, 53695223, 65914585,
   4463546, 81356256, 42694654, 89137257, 36931509, 14810609, 41173384, 7037627, 4298337, 76492245, 78615860, 62386640,
   26118602, 46170099, 44557947, 83984, 89809341, 23123293, 99389922, 16012029, 1242531, 16479019, 36437033, 16463532,
   96661604, 21815047, 45122420, 72231695, 42875423, 98000633, 44798307, 25674859, 98056439, 421008, 63825382, 56225698,
   97048185, 87562125, 71607184, 78525012, 15036568, 81053854, 11130279, 35586759, 49012018, 28093594, 75364736, 80732591,
   19605924, 69718736, 5985944, 59954485, 49326269, 7506939, 55764537, 10192229, 27318150, 12004389, 80758205, 42901296,
   2649319, 99963286, 37580815, 70614806, 2418114, 75502567, 43379734, 91886076, 44506879, 99851094, 61962632, 55228153,
   14722110, 25886423, 18184998, 22421516, 53399102, 266665, 1022038, 55263900, 28069545, 8935541, 81817302, 34946480,
   41375302, 33953249, 64866878, 52580779, 82148527, 16688795, 40497198, 39856146, 17096355, 56987973, 92463584, 37674991,
   47854825, 86140400, 80995351, 73671760, 50521656, 35816612, 70452185, 56578858, 80632731, 23188563, 49417497, 228115,
   80274319, 77893328, 78690788, 53084850, 72794915, 96670179, 36289574, 89622459, 75050827, 56174621, 57322943, 65147020,
   34489299, 62560989, 18744257, 20934968, 29662210, 60842685, 4325298, 19211666, 88778674, 31897173, 68884020, 35286885,
   69766649, 91896061, 12499599, 94098412, 84809651, 8900730, 80083973, 85740213, 61557762, 25436043, 6729323, 96428210,
   90425679, 68272868, 65632885, 38573984, 69018939, 44249284, 45237888, 64572998, 80947597, 5725061, 76862564, 55258710,
   6681479, 84256886, 12673891, 43532813, 44839310, 43415664, 181863, 40331188, 88747339, 44006309, 22784062, 2795468,
   49585205, 45335615, 93589613, 80056091, 47391610, 15500669, 76925581, 1165912, 76990770, 98567806, 66654818, 71897537,
   78193329, 56935699, 47415615, 49512483, 52824860, 39389761, 85700697, 21450557, 40750061, 59597812, 18792998, 87325402,
   13628135, 14220232, 34413442, 22701510, 50817959, 42003702, 73151190, 53499653, 70443109, 33752559, 35654243, 85886093,
   45971140, 42330171, 84009530, 33503516, 63288556, 1925715, 19909256, 50835624, 35090396, 63484693, 3515015, 66598675,
   8327013, 26041379, 42483467, 66743823, 68187012, 81671937, 79128797, 2530426, 52718202, 31757994, 72124560, 74192517,
   84773712, 42945536, 70940417, 91100298, 94239890, 59590254, 82939797, 2253746, 60826979, 83784799, 25346207, 33009548,
   36525770, 70672687, 3565502, 2775557, 87469513, 15464342, 49754692, 86427596, 1228884, 7791794, 45320096, 29247713,
   4939882, 94276434, 17861292, 15463659, 32907690, 15378245, 87467046, 28357680, 63668541, 5446604, 18780856, 47606525,
   6974402, 86309098, 26978014, 16103555, 63860992, 63209538, 30981407, 4836596, 21261279, 51990756, 15759506, 47098185,
   42667777, 17638888, 11609862, 83761735, 57514070, 3219109, 25466194, 53249895, 84988480, 76617985, 4855758, 57912953,
   80256232, 98874494, 99502079, 15730517, 34286959, 94810020, 19882653, 11206537, 60256515, 79663009, 25352850, 47489993,
   89230379, 122538, 98286640, 15266535, 6473095, 96280170, 58755514, 58394987, 56236273, 57729877, 88156670, 43543545,
   67086947, 80299714, 99868580, 86373772, 26895221, 83351240, 73732362, 30511141, 76836432, 82738159, 58883643, 33234049,
   51105250, 22376261, 41229050, 40545452, 43417254, 45672834, 14502128, 73579843, 70397596, 52649941, 29443414, 45205170,
   69704208, 58512937, 42710021, 62086917, 75538662, 17350267, 52065109, 98111326, 49700673, 15842056, 88304896, 77689522,
   30772989, 41729086, 15043208, 12800653, 78131894, 41351964, 41523598, 16587463, 17832455, 11196270, 53787890, 63623139,
   67044982, 54785957, 98679965, 81739394, 86581547, 3504238, 79399847, 53036891, 89518743, 90670703, 78114032, 51402683,
   59333517, 64622184, 70702938, 4268571, 78579953, 44652105, 84163253, 47107948, 32916208, 54129952, 48047775, 63665371,
   96848369, 67276089, 8644709, 18894585, 59395395, 59680090, 9358020, 66437333, 31577821, 85590012, 39961212, 23561149,
   34108332, 82777253, 66848889, 67772882, 71487675, 83216497, 66868367, 81311117, 7852648, 84981470, 44653015, 40503818,
   60774983, 28191135, 28369656, 46517250, 21160138, 57062750, 40622292, 41725237, 80585398, 21206830, 12362709, 4278742,
   24575187, 41946969, 8301059, 94550019, 50227296, 36974485, 69363516, 96793722, 70026428, 90063961, 6700418, 61760773,
   62811848, 27799634, 12802419, 32782482, 4876042, 72255531, 85491905, 2456293, 84912528, 27808894, 44820232, 30427682,
   83379180, 22818663, 12374367, 84088777, 16243556, 93546072, 65914987, 45833482, 87328254, 4706907, 61590764, 18001853,
   94907222, 70043238, 32275465, 66827775, 55364077, 4127264, 79079960, 27700208, 27234523, 10815403, 46568562, 61505752,
   48802328, 62426636, 39336380, 41405095, 40709345, 47035316, 58799491, 78968690, 3853880, 15384584, 49529944, 28474580,
   47636208, 46700241, 3266490, 60304402, 90603607, 22468272, 57048965, 38659604, 8752612, 55593724, 62713950, 16549187,
   59936657, 1003647, 16925133, 36053419, 53196318, 80629988, 35461224, 72795801, 60094660, 77618331, 55614568, 81449966,
   32220017, 3047208, 11134797, 28396114, 4482617, 16763726, 43767073, 22820870, 56658165, 85915831, 89846798, 76520207,
   54346378, 221655, 78463735, 23098561, 25818118, 16641251, 69983279, 5755454, 57807929, 54466657, 44548806, 6958902,
   10565385, 13011927, 86075841, 27345563, 2755378, 6257304, 89447531, 23244773, 7454635, 28787235, 52321412, 48772620,
   44381666, 3225612, 6993118, 17180917, 66498534, 27294471, 12199199, 39770677, 60079091, 8596858, 49476295, 59986025,
   73311944, 24534521, 44804791, 54220337, 2654891, 62903445, 51966505, 80253940, 56216634, 12376444, 80165267, 47035559,
   71380404, 24800174, 24171474, 17374110, 34322518, 41650940, 60219269, 51305241, 3519105, 45948395, 15376493, 32120718,
   20419358, 98641951, 63296786, 48704698, 28133770, 99232316, 26903365, 20872244, 45938704, 19462347, 33826026, 58413769,
   64320747, 66063497, 2607054, 95422330, 88258585, 12375819, 35709662, 75829116, 49777465, 98117679, 94714066, 32315964,
   16486773, 48865431, 55948802, 29822202, 91446215, 46986789, 79321984, 3953225, 82582417, 32118245, 61685608, 16601548,
   77093320, 54888454, 758920, 1258105, 27536368, 68054971, 29366619, 89367305, 16643667, 55689665, 54153833, 37452246,
   92133548, 35569809, 95614946, 88494058, 41978442, 76028704, 74240301, 4723401, 4173289, 40387914, 26433740, 1505431,
   66483081, 6955736, 12083200, 29007450, 48991603, 761687, 38668620, 34613736, 28672950, 99274925, 31219079, 1549064,
   5025415, 68284877, 92292727, 47296814, 818504, 29881131, 31714587, 57245397, 87015740, 41339148, 16233611, 63758936,
   40052278, 26394388, 13406863, 36203234, 46177447, 99444710, 31090664, 34022203, 70446013, 61918797, 13527302, 87029118,
   15673468, 19349854, 87170144, 65308752, 37062374, 96186336, 82292907, 10603271, 44900216, 85882623, 21475068, 72309349,
   85119501, 94985146, 22000735, 39520865, 70547876, 69584869, 6365588, 70874184, 41825963, 41259187, 36372157, 30766536,
   66822700, 8406006, 83061071, 93664400, 65966966, 48672776, 56278314, 44773755, 97878776, 68331407, 53807401, 10470459,
   63602710, 51046707, 62368839, 82978245, 34904856, 3278960, 35821513, 51106672, 49263228, 95604409, 32216472, 50335773,
   14372460, 78819091, 67816680, 74796783, 74096301, 43678888, 7379842, 58212846, 71374588, 42588515, 90218384, 26352555,
   74251491, 15210630, 9130486, 12360498, 46618291, 31665457, 29785333, 8300737, 20655970, 57044589, 64157514, 80782709,
   16805377, 25053962, 70081563, 49291299, 57218175, 41549314, 37832235, 50723116, 23317232, 30724007, 15449431, 28930304,
   58194243, 85522750, 17771303, 14583309, 24059585, 50741295, 69659579, 70934243, 87850141, 33074011, 79656399, 45679560,
   5111808, 75845046, 13894885, 38869240, 20014436, 4666080, 89022302, 75338484, 72719159, 91512632, 66401143, 99702196,
   64088852, 6037422, 91682003, 34058986, 1693647, 64186478, 23082325, 74104019, 43369647, 19127104, 6370044, 81321449,
   73676888, 94066309, 53703182, 96215444, 79517508, 57787355, 57003224, 16551934, 13857375, 35387276, 14725712, 10532349,
   20452682, 30496686, 60471585, 39194278, 9587935, 3152392, 13483674, 74373026, 89456712, 78861129, 85706529, 66086755,
   42336916, 41618154, 64323010, 67629000, 99671337, 53779013, 4201714, 5732965, 38857447, 31697296, 42130600, 62405113,
   48613102, 17262788, 7576141, 29725506, 50477545, 80001129, 13393320, 43893981, 2279340, 74251805, 90603565, 86889481,
   86181765, 50623832, 52921157, 90597643, 76304781, 80465926, 82091759, 71233482, 17917080, 80411013, 66328664, 68162546,
   32007955, 32655146, 63991735, 11541751, 79125690, 50187793, 68076071, 91314301, 48676663, 13163477, 62257762, 85301028,
   89603017, 57208291, 47684985, 2434500, 15494581, 76766017, 2111957, 47890162, 99381613, 2750091, 65058205, 4351586,
   43924425, 57234104, 38908716, 39057610, 97482061, 30842599, 38681603, 63362549, 97053050, 26691102, 68325016, 95920208,
   20822332, 49199724, 75317069, 28162646, 95018198, 45846028, 49623056, 71838176, 7845485, 64569135, 24897101, 7408913,
   26613161, 88267111, 6825587, 65625352, 48401834, 78351848, 29207424, 11363687, 77772906, 56892070, 21124488, 60945290,
   38538838, 10173236, 93512727, 45235303, 91244475, 6174654, 42642839, 55307487, 30481407, 817705, 30166346, 67879355,
   13187957, 12958945, 89053498, 66914521, 65622382, 2511932, 67578358, 77487958, 23578992, 70868412, 49872506, 11982168,
   29419024, 72001928, 73474853, 65168371, 90132452, 41253697, 88941543, 11771898, 84928175, 92523058, 48323574, 39701944,
   49911169, 95576953, 11813279, 29763616, 192385, 7797777, 47906897, 51569654, 52514258, 1667051, 39118527, 9314678,
   60713322, 12116975, 87156024, 40552620, 17893255, 61161551, 33894312, 30444197, 2760760, 70120492, 33806221, 39474892,
   45111995, 93669021, 14297686, 80402020, 61634283, 75581279, 61234781, 52531152, 97887121, 3934528, 1743553, 64043724,
   32180802, 4427379, 47894366, 74018032, 7609142, 63361701, 39470419, 63818785, 60631367, 22589406, 56993747, 25390003,
   93614220, 64751432, 50524696, 43787057, 1947722, 21823494, 62606799, 95138210, 43554689, 4216615, 45152059, 18693753,
   14875954, 89077405, 96284057, 25855058, 19039641, 52262110, 65999989, 23609631, 88458656, 14800111, 71363846, 49913523,
   12945476, 94267719, 64869073, 78816128, 76301900, 86572479, 99039391, 85293239, 87565803, 95154855, 92554980, 43140442,
   48738386, 2171060, 27683698, 87827507, 87014752, 16509987, 11961023, 84079318, 95521044, 82420468, 50569133, 6261665,
   31386337, 42055744, 88539384, 57834358, 74778801, 65177323, 62930311, 48997986, 31113975, 35763254, 62975888, 52233080,
   14353989, 9749575, 79670442, 62507847, 48297074, 79593406, 933663, 31440753, 56374496, 58667545, 16211643, 19001964,
   39662187, 64734529, 30734425, 46679056, 10109246, 53834062, 12755790, 67754041, 62956542, 11320683, 60883321, 61141037,
   34537253, 33843081, 24237615, 92619759, 44113610, 15296601, 68723454, 6852175, 85414818, 34623092, 42354833, 52632847,
   88628604, 76772461, 86552046, 91405511, 77257242, 52787260, 79044676, 6718214, 40538351, 93395125, 69830511, 99968252,
   76943408, 783275, 64451797, 70586262, 71694548, 1321038, 70652463, 403040, 62094053, 83146812, 62973389, 66890886,
   53862582, 20183537, 97365380, 96111631, 5476765, 94160897, 87476512, 32718117, 7696688, 30490312, 41672795, 38755384,
   78298822, 17678750, 24756417, 12621877, 8672845, 72639631, 50360428, 34847352, 18569029, 19850713, 61857329, 6542171,
   64917791, 92071602, 88985730, 85470116, 48947526, 54472875, 32471980, 80385436, 26378874, 90146268, 22662829, 13153912,
   39596457, 55558751, 83517859, 49474684, 16858923, 86460172, 62684307, 65540150, 73089985, 33229973, 34292001, 76120119,
   32098768, 55021761, 56342639, 51047959, 10011355, 61764354, 12458937, 11189960, 37677542, 43656024, 37516102, 89848986,
   45872421, 30082682, 39723939, 59858173, 97276509, 74342084, 34482001, 55731798, 6666138, 5876205, 36700851, 83669352,
   90471807, 44734085, 64566746, 48735954, 48233447, 58497423, 35623559, 5165864, 41694718, 55491064, 10053169, 91804884,
   76361957, 19267509, 97588849, 63153841, 22251344, 31295986, 10487359, 55356845, 99222675, 99211708, 16817897, 64135049,
   44018928, 82402946, 85147757, 99590494, 62532176, 47090768, 24924000, 4037202, 41815195, 81800952, 38465114, 83094871,
   56628739, 19264195, 49874711, 1008329, 16027330, 46782360, 65484577, 95518905, 15552378, 16422283, 64067762, 50564231,
   93769689, 15686873, 62715527, 92879484, 60533255, 35997492, 5405433, 52106270, 12160695, 26121141, 36212454, 81168082,
   55985194, 51988106, 11950708, 81086006, 63862682, 33015882, 18679844, 19484104, 11275664, 46583068, 8666433, 94590479,
   93814056, 81601688, 3969401, 19926525, 41409758, 3522411, 75446896, 60018902, 27694683, 32728856, 53314015, 5127711,
   7476717, 67676247, 18010611, 14245997, 74196835, 22288230, 29909684, 31968291, 13866682, 70596766, 62657740, 22804198,
   79590898, 32715758, 24606112, 54208370, 94973976, 51550181, 47894189, 41921416, 29091601, 32184994, 23733234, 275185,
   83660528, 63694168, 12131808, 64085184, 12355913, 7935305, 32333611, 87792825, 73130601, 547043, 90704065, 1504302,
   89688911, 71861902, 80366374, 46106239, 40724839, 91948925, 89925524, 31579568, 96435405, 21732366, 36318451, 32104204,
   15994863, 15604726, 62009201, 39585307, 59004081, 31138476, 93519612, 41718242, 83286552, 82030623, 22553837, 21050137,
   94691107, 40077922, 2796359, 68647800, 96514980, 8025882, 29942741, 59611970, 16898770, 99478918, 47787146, 44398966,
   46851938, 19558378, 5875287, 71772494, 42732282, 57007925, 237196, 12016515, 31826889, 64328470, 83745482, 96829978,
   25141760, 73245448, 4699100, 44598643, 99265433, 62396864, 61800215, 40375893, 90134026, 50181256, 61265064, 20576989,
   79246297, 4250127, 12734099, 96685352, 56984088, 21062482, 53997211, 74672768, 80381303, 36239221, 71913861, 85469326,
   13326881, 14899247, 13748633, 5520663, 22513858, 49572368, 76653390, 6342187, 13374045, 34033840, 79440566, 40078821,
   45499379, 3771627, 46730705, 13979298, 13156543, 59332406, 16921432, 67642963, 9530831, 52055083, 42506096, 9176010,
   33264639, 43370793, 35187670, 29374944, 45415694, 80378461, 29557802, 22614804, 24226807, 95894416, 77111042, 35071344,
   86996924, 87655735, 73517646, 36212790, 20303381, 84597879, 27083265, 17388662, 34708730, 87431724, 57387185, 84179065,
   60109002, 24143759, 50116257, 95273251, 9551017, 3440941, 3617279, 87237541, 24928544, 93315096, 43394772, 69190685,
   79186472, 36192017, 12036893, 13960403, 21631315, 2937795, 48116630, 91070038, 16661242, 18593280, 96539464, 88449794,
   30271089, 61122446, 69749135, 93865035, 43132599, 11056746, 42850704, 4560617, 60592317, 20366923, 35512263, 25895441,
   81915706, 29764018, 40991650, 90281219, 15934535, 59477254, 42167113, 41535349, 89966831, 34326144, 19923547, 55978013,
   32030858, 79371640, 29447472, 8752503, 25119171, 77788493, 2483706, 38742580, 75618098, 75140107, 2029918, 91142506,
   88327656, 99584830, 66216897, 56817129, 68608128, 42224621, 85228578, 5986769, 92777442, 47918900, 85681074, 82973686,
   84688760, 53743666, 65557492, 53172542, 65995351, 58452648, 94176842, 63028328, 31886388, 16411436, 87185156, 30887034,
   12353566, 64106472, 48475427, 23324994, 73061842, 92212905, 38168928, 32655751, 76481840, 12945777, 8442744, 1107078,
   90759572, 8998842, 35292105, 83032950, 48362686, 57330170, 20623622, 54477133, 35641054, 14826957, 41426501, 73742201,
   9176849, 68629309, 39929981, 69413727, 80674268, 96867046, 82174721, 39051242, 97143202, 26981609, 253872, 29277752,
   92392631, 41857269, 3488838, 65995380, 36103728, 89294948, 40077279, 66802399, 79373006, 33596346, 55783586, 75087792,
   71072628, 10853962, 57275609, 68905307, 37593866, 54826393, 92599448, 61765262, 67112979, 38393804, 52151317, 61778239,
   43558289, 64842296, 2315613, 59162467, 88721314, 20642987, 18315810, 9968930, 59351333, 52358999, 98608516, 65203997,
   41379742, 64673391, 65028754, 11657272, 28251547, 32815951, 1394463, 81614325, 29935667, 11200386, 17190467, 52251084,
   59686910, 93267694, 74956886, 26471208, 72440593, 99420061, 42653920, 42184917, 46393887, 4251677, 29979910, 7711429,
   9080132, 55235190, 34413732, 89172472, 3354, 17045548, 62426201, 34025987, 7586633, 80688789, 82367183, 60289721,
   71838961, 88168549, 41423328, 34429736, 41021307, 48135409, 98506996, 78880617, 22007178, 8665300, 41017612, 50784902,
   25262158, 72310363, 22880313, 59303847, 69743963, 7764107, 88771862, 38315014, 66996930, 73298428, 67995960, 39176046,
   47027237, 92237156, 86746359, 69816044, 62148210, 87356476, 9314741, 91431296, 83679092, 63968132, 86896423, 82756028,
   35801029, 95634748, 74512193, 58167669, 87089915, 88819487, 96792256, 12825867, 8377635, 87705140, 55273076, 16875523,
   76975438, 10833175, 76134539, 95020871, 69381601, 86804367, 17889374, 6845148, 34901333, 45546484, 18073341, 11867356,
   3907800, 73480117, 71454314, 39766659, 21647765, 74488757, 96257070, 35029008, 58609640, 41883915, 64825426, 3036527,
   82197632, 76062157, 48592975, 61781249, 53156744, 30411173, 3587758, 42925340, 21408176, 24434698, 95832677, 91951730,
   28987529, 74126797, 82346104, 71596415, 20826764, 88729430, 4391973, 27885156, 90894192, 95462651, 67255122, 97261126,
   30056415, 57699587, 4363326, 30651116, 3358662, 51623891, 39810956, 89241162, 25490713, 50916530, 18173587, 71240537,
   86517776, 42090349, 37700555, 44962267, 62652912, 77364019, 52767522, 86774614, 71154964, 87200909, 1390745, 59823713,
   8309199, 3556127, 38571940, 71071773, 4244111, 53295562, 32836655, 92496830, 80492698, 22450425, 76513825, 91268228,
   30774515, 59902827, 33327226, 38874682, 7342409, 57152672, 6876376, 68301952, 50330147, 80620329, 10127233, 73402080,
   76272551, 88660384, 40420839, 41792534, 28531668, 83264554, 81563335, 46421607, 23761342, 21522091, 71191432, 718379,
   14593187, 26839452, 25568486, 65848706, 94394878, 38538043, 21530653, 25954334, 38965576, 32016644, 46491528, 69568215,
   32230426, 31628747, 90996727, 16305277, 89129015, 20581815, 17498598, 26332395, 58901029, 69081300, 86663706, 22106288,
   51761612, 51133276, 29238615, 89913553, 76263281, 15509100, 45834301, 86667435, 98715923, 53792573, 71735875, 20335259,
   8046926, 14324953, 13938605, 78040986, 94820718, 58387191, 76506022, 34840332, 69820249, 17621684, 57351430, 84984652,
   18064757, 48766416, 63064906, 99889313, 33991180, 64044323, 82561652, 41768333, 53775980, 8391423, 74807378, 19276665,
   2746893, 56268289, 44209711, 31087150, 24971940, 83325450, 9041312, 50696992, 50462027, 32718397, 67804102, 42941471,
   53695158, 22994100, 23099837, 22370538, 15182087, 43176778, 85109254, 76145049, 60031609, 88494324, 67279441, 77871955,
   60438121, 98490225, 34338284, 80661355, 83660176, 76163102, 21374850, 88833069, 9095310, 37500581, 80258372, 20652966,
   81290999, 47544920, 2584046, 92005520, 17761722, 32071176, 87783568, 56721688, 69539902, 18216886, 96250367, 59620857,
   47832182, 68910834, 45172322, 98627071, 30614343, 57288529, 55246569, 7312597, 28260952, 64401557, 54497613, 32772436,
   69570800, 51990233, 31429718, 60974816, 81460951, 50751178, 93214597, 56726269, 80668031, 87854126, 26305869, 72294463,
   11358003, 28048728, 90041004, 21986690, 35210928, 25270636, 27571576, 26565491, 67813488, 30094680, 62960902, 25591539,
   73525376, 50670815, 32459630, 83376149, 38061009, 96097901, 13905274, 65795061, 45400081, 91338534, 39858719, 40748211,
   20241192, 80273373, 23440972, 62041454, 45408704, 1767849, 53555923, 70455487, 5174508, 74432594, 61136943, 27069791,
   70291249, 46641852, 43005355, 24450773, 14889710, 72737093, 34955877, 44621774, 8060405, 97988196, 34904561, 28997725,
   64939804, 33515790, 59643634, 55230959, 79554665, 58956762, 20708529, 48814855, 70845979, 11693329, 10388477, 53415143,
   57238699, 80548124, 38128018, 3227609, 34661741, 15345967, 38009489, 52791391, 48208373, 57134466, 3453503, 85236779,
   50416420, 97851401, 34753342, 88306882, 64664777, 3727764, 24237078, 27182486, 25460502, 22266229, 67529464, 89924311,
   21819932, 99649434, 43770329, 33283573, 28798419, 9808014, 26681518, 54395236, 67623793, 84577646, 31275132, 43525531,
   1562494, 81097767, 33470828, 68938671, 59928280, 62127002, 22141114, 20467421, 76392977, 63173770, 10528231, 25275844,
   31665724, 4917936, 84657885, 11374486, 44215801, 43347796, 25531859, 54108379, 88409220, 16144355, 13514192, 39502072,
   90078924, 32126007, 70318411, 14587506, 46888746, 24263293, 17265192, 61054947, 59525917, 15370333, 37171342, 74667146,
   28470195, 86444091, 35258373, 42702528, 13428020, 1693199, 97410947, 27585901, 17941577, 43204359, 59532561, 94198646,
   91387007, 48430682, 67306462, 37629915, 45251256, 36553115, 73358552, 85019886, 51518014, 23297919, 24978654, 94009598,
   38788204, 94386424, 19095755, 44974278, 4376532, 20884011, 6203705, 77488102, 22806838, 50906386, 48567164, 43096186,
   35478073, 99796518, 42275508, 44777488, 85438480, 66964525, 526011, 5895374, 61823795, 49934552, 29701566, 38454524,
   73350231, 8987554, 13123033, 42797972, 11858128, 91699970, 57832427, 33800313, 16231005, 16519228, 44491482, 57482445,
   13964105, 94238818, 69501383, 35246000, 8377287, 32999584, 4305214, 79110100, 63265552, 65703092, 12727712, 33268134,
   43189335, 77064037, 30122899, 55966865, 3578015, 50379490, 7783419, 67071071, 93112357, 96539078, 92192396, 47051304,
   56365361, 1798884, 20150997, 64815102, 83440034, 21412834, 78267171, 86215156, 19229880, 31466364, 33593161, 23785766,
   65545255, 72761593, 87975926, 97916202, 85847253, 11749119, 51321615, 32102573, 33120879, 30759941, 42455451, 28430047,
   15450476, 95818538, 68146794, 45997404, 49793240, 12712853, 34164094, 93546940, 49617432, 50445435, 3503151, 28878267,
   72448792, 19890471, 96397164, 41440215, 22656657, 62658917, 16201296, 72858468, 28504772, 67558921, 83316812, 89985275,
   47715374, 21101060, 48410842, 30594733, 23756955, 95007997, 14095624, 4400573, 60308525, 32336646, 10248025, 97682643,
   51984756, 78904237, 84441526, 13080625, 53765195, 41623666, 36322179, 16721045, 84988627, 72844302, 62205501, 74907437,
   31312013, 90775698, 10286420, 99498996, 68346763, 7567274, 45500486, 50383329, 68789790, 47822387, 62484452, 21711305,
   27956322, 46803648, 63025696, 26202192, 57459112, 12265175, 78251809, 20664860, 8844882, 68303701, 6798017, 16267299,
   60480539, 26355422, 9979919, 17710343, 76531820, 16159913, 85625597, 45196283, 66738333, 62181838, 39516154, 51534861,
   27410278, 23316704, 95791863, 51924826, 28283064, 24472503, 32393343, 46996839, 41547642, 55179211, 67112937, 23952156,
   43996734, 15757175, 76189574, 74847211, 31273583, 21599837, 53783678, 63985607, 13835783, 98085309, 80911858, 10105571,
   98248891, 84289505, 94145872, 96800537, 20805240, 81401530, 19314359, 87987974, 3817093, 53107832, 76653397, 95989323,
   93683490, 69770548, 75789653, 53510289, 82532285, 5178694, 11232073, 98126792, 6054158, 73306391, 66129666, 85487798,
   55661849, 10417281, 24849176, 44348866, 15000353, 61121242, 29790467, 38882345, 21137575, 43141551, 16557439, 56822176,
   97862573, 27692905, 17711949, 24971723, 86097047, 66064974, 17613700, 26610636, 5326819, 32371267, 21153803, 59014182,
   37337834, 77845858, 51076452, 90610264, 29058479, 3711992, 69563902, 70707945, 90322782, 38529148, 43137351, 36630263,
   52103974, 50877440, 93299154, 3076642, 42194709, 90041486, 93161437, 68480822, 76486544, 89723924, 85955582, 49979005,
   86934022, 63692607, 22586529, 15422335, 44307711, 58655594, 88496882, 51030493, 5797095, 51621403, 1381569, 61999153,
   51517873, 737219, 20377833, 76777717, 32592081, 5633380, 50398408, 48590139, 11931910, 74153069, 66442728, 69103344,
   12379702, 7453329, 44182396, 72522959, 44106564, 67634865, 50793780, 9509851, 28487287, 41633096, 78452537, 16178953,
   88844538, 72952655, 23259343, 51583212, 99149280, 20781693, 62355676, 47840298, 93365116, 17859828, 68881730, 23870799,
   58031142, 32053011, 14799618, 12347287, 91583748, 77959402, 51616611, 33031674, 17849649, 52514454, 35928753, 60685107,
   33404787, 53598270, 73973278, 7462282, 97807814, 85899441, 29024640, 68569304, 30846375, 94446745, 55985571, 31267830,
   31796321, 2142592, 62623514, 88046054, 64996025, 19159796, 58454910, 86818310, 99545710, 22452653, 3327344, 85066849,
   31070124, 61336866, 969824, 22828368, 71051412, 78447903, 91162439, 33701613, 6834829, 33915503, 19149138, 95783347,
   90983954, 90340070, 14969581, 96680507, 93814967, 72211129, 10454196, 77429039, 60600584, 26203688, 84945267, 78200869,
   47900310, 27716264, 1698063, 34260353, 62421906, 95627192, 60438467, 75943387, 29265443, 86980174, 43241939, 89074250,
   15207188, 24517718, 24099090, 63985211, 28384303, 39936187, 80786490, 18780428, 78694758, 68505980, 49012277, 60786154,
   57480473, 123126, 11013744, 13573426, 35266078, 35661983, 26113283, 56467881, 39002747, 71460803, 37738168, 12217294,
   89104883, 11027806, 89590667, 25123969, 66505442, 73818397, 77356666, 3999209, 14841995, 13285259, 46614930, 11595976,
   85974406, 42739966, 12977089, 34708735, 11506784, 66965666, 58026340, 30362917, 32944190, 98100214, 65210903, 96292048,
   30004804, 27779488, 3560058, 2133838, 47492453, 98789268, 54007715, 48508352, 90857904, 37375957, 49112680, 31339481,
   87909916, 9557535, 61136545, 49631242, 69877810, 3088644, 65982072, 39586855, 14375887, 20535112, 18409137, 903169,
   2950587, 47257731, 46227067, 28660117, 50946802, 55334284, 25215092, 46180038, 81283310, 68330766, 68991034, 34872429,
   52640497, 86824633, 73126751, 30608062, 72259989, 79621150, 70652381, 31989211, 59624316, 89339560, 20058542, 84082671,
   41954361, 8084295, 63807689, 73745543, 10095377, 44503945, 25221757, 54057687, 9406459, 28722103, 50532097, 30587620,
   17068739, 66065997, 45539913, 39419746, 81246556, 52657582, 41400921, 919621, 21287603, 97799002, 87554928, 96582196,
   8193608, 65633353, 98238403, 83817831, 29045712, 5735493, 83806134, 2883918, 25922147, 91207466, 55476565, 9427366,
   87420149, 8102464, 28325246, 18981309, 73046595, 28953132, 79164471, 13112891, 65592103, 51699773, 26606968, 25208041,
   54798437, 75594710, 58182764, 48000946, 44468263, 67138917, 21473541, 54717707, 13246562, 40316634, 22046196, 73044594,
   2293919, 59657386, 2463728, 20347227, 72403673, 77196773, 98318823, 52745916, 38209941, 54990942, 25737023, 70533059,
   10882419, 89069802, 12667117, 64325256, 3751091, 24706728, 72802894, 87354033, 32885832, 21861936, 25174704, 4843491,
   26675901, 51935294, 30217100, 37225630, 20936671, 84369572, 90959771, 92569429, 65254091, 84508996, 65910860, 78667721,
   37897645, 99662646, 1986398, 77451341, 90283497, 4851983, 40948356, 2500214, 91049514, 94117946, 44887913, 53382318,
   6736973, 37697976, 76478391, 42699520, 92255806, 33250602, 67087934, 52584750, 9343706, 53218408, 10720295, 43903084,
   57679127, 31874522, 93636686, 85830359, 63296734, 58501179, 47193535, 36837878, 77530658, 64577838, 22996941, 3922149,
   9537636, 60266901, 5795886, 66469792, 82418182, 24863790, 65388967, 10792846, 34603984, 2027275, 20939323, 54250138,
   79242968, 37777707, 47523847, 90547512, 61995144, 8927465, 11342905, 93245475, 74292202, 32056878, 20974975, 12544755,
   21207616, 9287876, 81005676, 76484102, 7914787, 33824163, 32996280, 65440886, 58419411, 57239861, 87322582, 27201007,
   33453960, 54893854, 79426484, 61930092, 83256927, 74147279, 7710166, 60188953, 31962658, 33018675, 20436682, 38518653,
   47902554, 50015520, 72662443, 8358581, 79620988, 50853713, 8035056, 40590106, 10369864, 16300565, 86897299, 681148,
   30558345, 57262346, 43863838, 32183653, 24656251, 13549886, 31731955, 8922416, 75542254, 91007520, 25555282, 89011242,
   91020988, 67276874, 34392743, 51871528, 75855632, 45326059, 24028529, 34706010, 98302850, 47174118, 5974946, 26805869,
   2141674, 88882585, 34972873, 52483063, 87797313, 55720041, 84610985, 1297600, 3962012, 13043335, 2834055, 34605899,
   18123912, 23657119, 93801116, 91944265, 13081067, 16735554, 4057708, 97140980, 13107545, 92570532, 83838375, 61472611,
   7013999, 35990188, 9654769, 78997734, 5321246, 85341019, 58165419, 37231905, 44032632, 90701910, 69657202, 25230065,
   79051454, 40668111, 74755123, 32473483, 12915762, 70725297, 10001951, 77887775, 93125848, 17992588, 55795221, 26717461,
   75645217, 80949082, 48470832, 48362614, 93481080, 66732469, 70059246, 52046002, 95446747, 98853949, 9580235, 63765260,
   15956231, 14513336, 43875678, 44923268, 26946938, 68554753, 71993740, 71419643, 70164242, 53742230, 56630632, 70445599
  >>],
   [lo |-> 42393, vals |-> <<68391965, 49741906, 34984088, 83074225, 75281344, 59513394, 2257831, 38947116>>],
   [lo |-> 42398, vals |-> <<59513394, 2257831, 38947116, 70483600, 22284756, 88920945, 49001972, 59019351>>],
   [lo |-> 43241, vals |-> <<73328242, 2797604, 419273, 46681706, 84299898, 12786469, 11674732, 25898504>>],
   [lo |-> 43314, vals |-> <<87808726, 54068236, 75162760, 47089669, 64648483, 49231089, 67961792, 28317465>>],
   [lo |-> 44069, vals |-> <<75922966, 39171730, 85852396, 14577289, 99432070, 49849607, 45182760, 18852947>>],
   [lo |-> 44074, vals |-> <<49849607, 45182760, 18852947, 53124425, 11943055, 13450132, 14922710, 42234205>>],
   [lo |-> 45378, vals |-> <<38998539, 47014963, 34974375, 15445829, 45954720, 5985721, 92418956, 31066404>>],
   [lo |-> 45422, vals |-> <<94671490, 86264791, 60754067, 57692888, 76144350, 74449169, 49070043, 98391221>>]
  >>

WarpWindows ==
  <<
   [lo |-> 0,
    vals |->
  <<
   <<0, 83236, 165896, 247403, 327194>>, <<841470, 883523, 919444, 948984, 971937>>, <<909297, 871503, 827660, 778073, 723085>>, <<141120, 58226, -25072, -108196, -190568>>,
   <<-756803, -808584, -854753, -894990, -929015>>, <<-958925, -931986, -898579, -858935, -813330>>, <<-279416, -198525, -116256, -33180, 50127>>, <<656986, 717459, 772952, 823080, 867496>>,
   <<989358, 973813, 951511, 922604, 887294>>, <<412118, 334848, 255254, 173889, 91317>>, <<-544022, -611975, -675682, -734699, -788617>>, <<-999991, -996152, -985400, -967808, -943500>>,
   <<-536573, -464472, -389146, -311120, -230934>>, <<420167, 494242, 564886, 631610, 693951>>, <<990607, 998551, 999564, 993641, 980820>>, <<650287, 584797, 515247, 442122, 365928>>,
   <<-287904, -366617, -442786, -515882, -585398>>, <<-961398, -980965, -993725, -999587, -998512>>, <<-750988, -693419, -631038, -564276, -493599>>, <<149877, 231653, 311822, 389827, 465126>>,
   <<912945, 943744, 967994, 985525, 996216>>, <<836655, 788160, 734196, 675135, 611389>>, <<-8852, -92055, -174619, -255971, -335546>>, <<-846221, -887636, -922890, -951739, -973982>>,
   <<-905579, -867129, -822661, -772483, -716944>>, <<-132352, -49388, 33918, 116990, 199249>>, <<762558, 813759, 859313, 898902, 932253>>, <<956375, 928740, 894658, 854368, 808147>>,
   <<270905, 189841, 107459, 24331, -58966>>, <<-663634, -723597, -778538, -828076, -871866>>, <<-988032, -971764, -948751, -919154, -883178>>, <<-404038, -326496, -246687, -165167, -82500>>,
   <<551426, 618951, 682180, 740674, 794027>>, <<999911, 995336, 983853, 965542, 940529>>, <<529082, 456614, 380976, 302695, 222312>>, <<-428183, -501918, -572169, -638449, -700298>>,
   <<-991779, -998989, -999265, -992606, -979058>>, <<-643539, -577595, -507642, -434166, -357677>>, <<296368, 374837, 450704, 523444, 592550>>, <<963795, 982645, 994675, 999801, 997989>>,
   <<745113, 687013, 624145, 556946, 485881>>, <<-158623, -240256, -320221, -397964, -472944>>, <<-916522, -946635, -970178, -986988, -996947>>, <<-831775, -782683, -728158, -668580, -604362>>,
   <<17701, 100864, 183326, 264516, 343870>>, <<850903, 891676, 926261, 954417, 975949>>, <<901788, 862685, 817595, 766831, 710744>>, <<123573, 40545, -42764, -125777, -207916>>,
   <<-768255, -818873, -863807, -902746, -935420>>, <<-953753, -925423, -890670, -849736, -802903>>, <<-262375, -181144, -98656, -15482, 67798>>, <<670229, 729677, 784062, 833005, 876166>>,
   <<986627, 969636, 945916, 915631, 878990>>, <<395925, 318116, 238099, 156429, 73674>>, <<-558790, -625880, -688626, -746593, -799378>>, <<-999756, -994445, -982232, -963201, -937486>>,
   <<-521552, -448722, -372779, -294248, -213675>>, <<436164, 509553, 579405, 645236, 706588>>, <<992872, 999347, 998886, 991492, 977217>>, <<636738, 570346, 499995, 426175, 349396>>,
   <<-304811, -383029, -458589, -530966, -599658>>, <<-966118, -984249, -995549, -999939, -997390>>, <<-739181, -680555, -617206, -549574, -478126>>, <<167355, 248837, 328593, 406067, 480724>>,
   <<920026, 949450, 972285, 988371, 997598>>, <<826828, 777142, 722062, 661971, 597285>>, <<-26552, -109667, -192021, -273043, -352170>>, <<-855520, -895649, -929562, -957023, -977842>>,
   <<-897928, -858176, -812468, -761121, -704491>>, <<-114785, -31700, 51605, 134552, 216565>>, <<773890, 823920, 868232, 906517, 938512>>, <<951054, 922032, 886610, 845035, 797595>>,
   <<253823, 172431, 89843, 6630, -76628>>, <<-676772, -735702, -789526, -837870, -880399>>, <<-985147, -967435, -943009, -912037, -874736>>, <<-387782, -309713, -229494, -147682, -64845>>,
   <<566107, 632757, 695016, 752451, 804664>>, <<999520, 993473, 980531, 960784, 934368>>, <<513978, 440793, 364550, 285776, 205018>>, <<-444113, -517150, -586597, -651974, -712825>>,
   <<-993889, -999628, -998430, -990302, -975301>>, <<-629888, -563054, -492311, -418152, -341090>>, <<313228, 391190, 466436, 538445, 606717>>, <<968364, 985774, 996343, 999997, 996710>>,
   <<733190, 674042, 610217, 542156, 470333>>, <<-176076, -257402, -336941, -414141, -488467>>, <<-923459, -952192, -974317, -989679, -998173>>, <<-821818, -771542, -715911, -655312, -590164>>,
   <<35398, 118460, 200699, 281546, 360439>>, <<860069, 899550, 932788, 959551, 979655>>, <<893996, 853598, 807275, 755349, 698181>>, <<105987, 22851, -60443, -143318, -225199>>,
   <<-779467, -828905, -872590, -910220, -941532>>, <<-948283, -918570, -882482, -840270, -792225>>, <<-245252, -163707, -81025, 2220, 85449>>, <<683261, 741668, 794926, 842668, 884561>>,
   <<983587, 965156, 940025, 908371, 870412>>, <<379607, 301283, 220869, 138921, 56009>>, <<-573382, -639588, -701354, -758252, -809888>>, <<-999207, -992425, -978755, -958293, -931179>>,
   <<-506366, -432832, -356294, -277283, -196348>>, <<452025, 524704, 593742, 658658, 719004>>, <<994826, 999830, 997894, 989032, 973306>>, <<622988, 555716, 484586, 410094, 332755>>,
   <<-321623, -399321, -474248, -545883, -613730>>, <<-970536, -987225, -997061, -999978, -995955>>, <<-727143, -667479, -603182, -534698, -462504>>, <<184781, 265944, 345260, 422180, 496171>>,
   <<926818, 954858, 976271, 990908, 998668>>, <<816742, 765880, 709702, 648599, 582994>>, <<-44243, -127245, -209364, -290029, -368682>>, <<-864552, -903382, -935942, -962007, -981394>>,
   <<-889996, -848954, -802020, -749520, -691817>>, <<-97182, -14002, 69275, 152072, 233813>>, <<784980, 833823, 876879, 913849, 944476>>, <<945435, 915035, 878284, 835437, 786792>>,
   <<236661, 154967, 72198, -11072, -94265>>, <<-689698, -747577, -800266, -847402, -888656>>, <<-981953, -962803, -936970, -904635, -866021>>, <<-371405, -292833, -212228, -130151, -47170>>,
   <<580611, 646366, 707635, 763992, 815048>>, <<998815, 991298, 976901, 955724, 927914>>, <<498713, 424835, 348009, 268767, 187660>>, <<-459904, -532220, -600842, -665294, -725128>>,
   <<-995687, -999955, -997282, -987687, -971238>>, <<-616041, -548336, -476826, -402006, -324396>>, <<329990, 407420, 482021, 553277, 620693>>, <<972630, 988595, 997700, 999879, 995120>>,
   <<721037, 660861, 596097, 527197, 454637>>, <<-193474, -274467, -353555, -430189, -503837>>, <<-930106, -957451, -978150, -992061, -999086>>, <<-811604, -760160, -703440, -641838, -575781>>,
   <<53083, 136018, 218010, 298488, 376895>>, <<868965, 907141, 939022, 964385, 983054>>, <<885924, 844242, 796701, 743630, 685398>>, <<88368, 5150, -78103, -160815, -242411>>,
   <<-790434, -838677, -881100, -917408, -947348>>, <<-942515, -911429, -874018, -830541, -781299>>, <<-228053, -146218, -63368, 19921, 103073>>, <<696080, 753425, 805542, 852067, 892679>>,
   <<980239, 960372, 933840, 900826, 861560>>, <<363171, 284357, 203569, 121369, 38326>>, <<-587796, -653095, -713862, -769675, -820145>>, <<-998346, -990095, -974973, -953083, -924579>>,
   <<-491022, -416807, -339698, -260232, -178960>>, <<467745, 539692, 607893, 671875, 731194>>, <<996469, 999999, 996589, 986263, 969091>>, <<609044, 540912, 469026, 393885, 316010>>,
   <<-338334, -415488, -489758, -560630, -627610>>, <<-974649, -989890, -998261, -999704, -994208>>, <<-714877, -654193, -588968, -519656, -446737>>, <<202149, 282966, 361819, 438161, 511462>>,
   <<933320, 959967, 979951, 993134, 999425>>, <<806400, 754378, 697120, 635024, 568520>>, <<-61921, -144783, -226641, -306925, -385079>>, <<-873312, -910832, -942029, -966689, -984639>>,
   <<-881785, -839466, -791321, -737684, -678927>>, <<-79549, 3700, 86924, 169544, 250987>>, <<795824, 843464, 885251, 920893, 950145>>, <<939519, 907751, 869682, 825577, 775743>>,
   <<219425, 137455, 54531, -28771, -111874>>, <<-702408, -759217, -810756, -856668, -896635>>, <<-978451, -957868, -930638, -896949, -857034>>, <<-354911, -275861, -194896, -112579, -29481>>,
   <<594932, 659772, 720032, 775294, 825176>>, <<997797, 988813, 972965, 950366, 921170>>, <<483291, 408743, 331359, 251675, 170244>>, <<-475551, -547123, -614898, -678405, -737204>>,
   <<-997174, -999967, -995821, -984763, -966870>>, <<-602000, -533447, -461191, -385735, -307601>>, <<346649, 423522, 497455, 567936, 634475>>, <<976590, 991106, 998743, 999448, 993217>>,
   <<708659, 647472, 581791, 512072, 438799>>, <<-210811, -291446, -370058, -446101, -519049>>, <<-936462, -962410, -981677, -994132, -999687>>, <<-801135, -748539, -690748, -628162, -561217>>,
   <<70752, 153535, 235252, 315336, 393232>>, <<877589, 914449, 944961, 968916, 986145>>, <<877575, 834622, 785877, 731678, 672401>>, <<70722, -12552, -95739, -178261, -259547>>,
   <<-801153, -848187, -889334, -924309, -952868>>, <<-936452, -904003, -865280, -820551, -770128>>, <<-210782, -128683, -45692, 37617, 120664>>, <<708680, 764947, 815905, 861200, 900518>>,
   <<976584, 955288, 927362, 892999, 852439>>, <<346621, 267341, 186206, 103779, 20631>>, <<-602024, -666398, -726147, -780856, -830145>>, <<-997172, -987455, -970884, -947575, -917690>>,
   <<-475524, -400650, -322996, -243099, -161516>>, <<483317, 554510, 621853, 684881, 743155>>, <<997799, 999855, 994973, 983184, 964572>>, <<594908, 525938, 453318, 377552, 299166>>,
   <<-354939, -431524, -505115, -575200, -641293>>, <<-978457, -992246, -999149, -999116, -992150>>, <<-702387, -640702, -574570, -504450, -430829>>, <<219454, 299900, 378265, 454005, 526593>>,
   <<939530, 964775, 983325, 995049, 999868>>, <<795805, 742639, 684319, 621250, 553868>>, <<-79579, -162276, -243846, -323725, -401356>>, <<-881799, -917996, -947821, -971068, -987576>>,
   <<-873298, -829715, -780374, -725617, -665824>>, <<-61891, 21401, 104545, 186963, 268083>>, <<806418, 852841, 893345, 927649, 955515>>, <<933309, 900182, 860808, 815459, 764450>>,
   <<202120, 119899, 36847, -46461, -129447>>, <<-714898, -770619, -820991, -865666, -904332>>, <<-974642, -952634, -924014, -888981, -847779>>, <<-338306, -258803, -177503, -94972, -11782>>,
   <<609067, 672971, 732203, 786354, 835046>>, <<996466, 986017, 968725, 944709, 914137>>, <<467718, 392524, 314605, 234503, 152773>>, <<-491048, -561855, -628762, -691305, -749050>>,
   <<-998348, -999667, -994048, -981530, -962200>>, <<-587771, -518390, -445412, -369342, -290709>>, <<363199, 439491, 512734, 582417, 648058>>, <<980245, 993306, 999474, 998704, 991003>>,
   <<696058, 633880, 567302, 496787, 422824>>, <<-228082, -308334, -386445, -461874, -534098>>, <<-942525, -967067, -984897, -995891, -999973>>, <<-790415, -736684, -677839, -614290, -546478>>,
   <<88398, 171003, 252420, 332086, 409446>>, <<885938, 921469, 950605, 973143, 988927>>, <<868950, 824741, 774808, 719497, 659192>>, <<53053, -30251, -113345, -195652, -276601>>,
   <<-811621, -857431, -897289, -930920, -958089>>, <<-930095, -896293, -856270, -810305, -758715>>, <<-193444, -111108, -28001, 55300, 138218>>, <<721058, 776229, 826012, 870062, 908074>>,
   <<972623, 949904, 920593, 884892, 843050>>, <<329962, 250242, 168785, 86156, 2930>>, <<-616065, -679492, -738204, -791792, -839885>>, <<-995685, -984505, -966492, -941771, -910513>>,
   <<-459877, -384368, -306192, -225890, -144021>>, <<498739, 569154, 635619, 697672, 754883>>, <<998816, 999398, 993044, 979798, 959751>>, <<580586, 510800, 437469, 361101, 282227>>,
   <<-371433, -447426, -520314, -589590, -654775>>, <<-981958, -994291, -999723, -998216, -989781>>, <<-689677, -627010, -559992, -489087, -414787>>, <<236690, 316741, 394593, 469706, 541559>>,
   <<945445, 969281, 986390, 996653, 999998>>, <<784961, 730668, 671304, 607281, 539043>>, <<-97212, -179718, -260976, -340423, -417507>>, <<-890010, -924873, -953316, -975144, -990203>>,
   <<-864537, -819704, -769183, -713323, -652512>>, <<-44213, 39096, 122133, 204323, 285095>>, <<816759, 861951, 901160, 934115, 960587>>, <<926807, 892332, 851664, 805085, 752918>>,
   <<184752, 102306, 19151, -64137, -146980>>, <<-727164, -781779, -830969, -874392, -911746>>, <<-970529, -947101, -917101, -880736, -838258>>, <<-321594, -241663, -160055, -77335, 5921>>,
   <<623012, 685959, 744145, 797166, 844655>>, <<994823, 982913, 964181, 938756, 906817>>, <<451998, 376181, 297753, 217258, 135255>>, <<-506392, -576410, -642428, -703987, -760660>>,
   <<-999209, -999053, -991964, -977990, -957228>>, <<-573358, -503172, -429493, -352834, -273726>>, <<379635, 455323, 527851, 596716, 661438>>, <<983593, 995195, 999891, 997647, 988479>>,
   <<683239, 620089, 552635, 481346, 406716>>, <<-245282, -325125, -402711, -477503, -548980>>, <<-948292, -971421, -987807, -997338, -999947>>, <<-779448, -724598, -664718, -600226, -531568>>,
   <<106017, 188417, 269509, 348731, 425532>>, <<894010, 928201, 955951, 977066, 991399>>, <<860054, 814601, 763495, 707090, 645778>>, <<35368, -47940, -130915, -212981, -293569>>,
   <<-821836, -866406, -904963, -937239, -963010>>, <<-923447, -888303, -846993, -799804, -747065>>, <<-176046, -93499, -10302, 72966, 155728>>, <<733210, 787267, 835860, 878652, 915345>>,
   <<968356, 944223, 913536, 876508, 833397>>, <<313200, 233064, 151310, 68507, -14772>>, <<-629912, -692373, -750029, -802480, -849361>>, <<-993886, -981246, -961796, -935671, -903051>>,
   <<-444086, -367966, -289292, -208611, -126481>>, <<514004, 583620, 649185, 710245, 766375>>, <<999521, 998628, 990804, 976104, 954629>>, <<566082, 495502, 421482, 344537, 265201>>,
   <<-387810, -463187, -535349, -603796, -668052>>, <<-985152, -996024, -999983, -997002, -987101>>, <<-676750, -613122, -545238, -473570, -398615>>, <<253852, 333481, 410796, 485260, 556356>>,
   <<951063, 973483, 989146, 997944, 999815>>, <<773871, 718468, 658079, 593122, 524049>>, <<-114815, -197103, -278023, -357014, -433526>>, <<-897941, -931459, -958512, -978913, -992520>>,
   <<-855505, -809436, -757750, -700805, -638995>>, <<-26522, 56778, 139684, 221620, 302018>>, <<826845, 870791, 908693, 940288, 965357>>, <<920014, 884202, 842253, 794459, 741151>>,
   <<167325, 84681, 1450, -81792, -164466>>, <<-739201, -792695, -840687, -882844, -918874>>, <<-966110, -941272, -909900, -872214, -828474>>, <<-304782, -224448, -142556, -59674, 23621>>,
   <<636761, 698732, 755853, 807729, 853999>>, <<992869, 979500, 959334, 932510, 899213>>, <<436137, 359720, 280807, 199945, 117695>>, <<-521577, -590785, -655893, -716449, -772032>>,
   <<-999756, -998126, -989569, -974143, -951957>>, <<-558765, -487795, -413440, -336215, -256657>>, <<395952, 471012, 542803, 610827, 674611>>, <<986632, 996773, 999995, 996277, 985645>>,
   <<670206, 606104, 537796, 465754, 390481>>, <<-262404, -341814, -418851, -492981, -563690>>, <<-953762, -975470, -990409, -998473, -999607>>, <<-768236, -712284, -651389, -585973, -516490>>,
   <<123603, 205772, 286514, 365267, 441485>>, <<901801, 934642, 960997, 980682, 993560>>, <<850887, 804206, 751943, 694462, 632161>>, <<17671, -65614, -148444, -230243, -310445>>,
   <<-831792, -875109, -912353, -943265, -967630>>, <<-916510, -880034, -837450, -789053, -735180>>, <<-158593, -75860, 7401, 90610, 173190>>, <<745133, 798059, 845446, 886966, 922330>>,
   <<963787, 938245, 906192, 867849, 823483>>, <<296339, 215813, 133788, 50836, -32470>>, <<-643562, -705038, -761620, -812917, -858571>>, <<-991775, -977680, -956799, -929277, -895306>>,
   <<-428156, -351449, -272302, -191265, -108901>>, <<529108, 597903, 662548, 722595, 777627>>, <<999912, 997544, 988254, 972104, 949208>>, <<551401, 480048, 405363, 327865, 248091>>,
   <<-404066, -478803, -550217, -617812, -681120>>, <<-988037, -997445, -999931, -995476, -984113>>, <<-663612, -599041, -530313, -457904, -382318>>, <<270934, 350118, 426871, 500662, 570978>>,
   <<956384, 977380, 991592, 998922, 999319>>, <<762538, 706043, 644647, 578777, 508890>>, <<-132382, -214427, -294984, -373493, -449410>>, <<-905592, -937754, -963408, -982376, -994525>>,
   <<-846205, -798915, -746080, -688067, -625279>>, <<-8822, 74443, 157190, 238847, 318846>>, <<836672, 879357, 915940, 946166, 969825>>, <<912932, 875795, 832578, 783584, 729151>>,
   <<149847, 67030, -16253, -99422, -181902>>, <<-751008, -803362, -850141, -891020, -925715>>, <<-961390, -935147, -902415, -863419, -818430>>, <<-287875, -207163, -125012, -41995, 41314>>,
   <<650310, 711286, 767325, 818039, 863075>>, <<990603, 975781, 954187, 925971, 891327>>, <<420139, 343147, 263773, 182569, 100097>>, <<-536599, -604975, -669153, -728686, -783162>>,
   <<-999991, -996887, -986863, -969991, -946387>>, <<-543996, -472265, -397257, -319491, -239508>>, <<412145, 486554, 557585, 624747, 687573>>, <<989362, 998037, 999786, 994595, 982502>>,
   <<656963, 591929, 522787, 450017, 374123>>, <<-279445, -358396, -434860, -508306, -578223>>, <<-958933, -979214, -992699, -999294, -998954>>, <<-756783, -699748, -637856, -571537, -501251>>,
   <<141149, 223063, 303429, 381688, 457299>>, <<909309, 940790, 965742, 983991, 995410>>, <<841454, 793559, 740156, 681616, 618346>>, <<-31, -83267, -165926, -247434, -327224>>,
   <<-841488, -883539, -919457, -948995, -971945>>, <<-909285, -871489, -827644, -778055, -723066>>, <<-141091, -58197, 25101, 108225, 190597>>, <<756822, 808601, 854768, 895002, 929025>>,
   <<958915, 931974, 898564, 858919, 813311>>, <<279386, 198494, 116225, 33149, -50158>>, <<-657010, -717481, -772972, -823098, -867512>>, <<-989354, -973808, -951502, -922593, -887281>>,
   <<-412092, -334821, -255226, -173860, -91288>>, <<544046, 611998, 675703, 734718, 788634>>, <<999990, 996149, 985394, 967800, 943489>>, <<536547, 464444, 389117, 311090, 230904>>,
   <<-420195, -494269, -564912, -631635, -693974>>, <<-990612, -998553, -999565, -993638, -980816>>, <<-650265, -584773, -515222, -442096, -365901>>, <<287932, 366644, 442812, 515907, 585421>>,
   <<961405, 980970, 993727, 999587, 998509>>, <<750967, 693396, 631013, 564251, 493572>>, <<-149908, -231684, -311852, -389856, -465154>>, <<-912958, -943755, -968002, -985531, -996219>>,
   <<-836640, -788143, -734176, -675114, -611366>>, <<8881, 92084, 174647, 255999, 335574>>, <<846236, 887649, 922901, 951747, 973988>>, <<905565, 867113, 822643, 772463, 716922>>,
   <<132321, 49357, -33950, -117021, -199280>>, <<-762578, -813778, -859329, -898916, -932265>>, <<-956368, -928730, -894646, -854353, -808131>>, <<-270877, -189812, -107430, -24302, 58995>>,
   <<663656, 723617, 778556, 828092, 871880>>, <<988026, 971756, 948741, 919141, 883162>>, <<404010, 326466, 246657, 165136, 82469>>, <<-551452, -618975, -682203, -740695, -794047>>,
   <<-999912, -995334, -983849, -965535, -940520>>, <<-529058, -456588, -380949, -302667, -222284>>, <<428209, 501943, 572193, 638471, 700319>>, <<991782, 998989, 999263, 992601, 979051>>,
   <<643515, 577569, 507615, 434138, 357648>>, <<-296398, -374866, -450732, -523470, -592575>>, <<-963804, -982651, -994679, -999803, -997988>>, <<-745094, -686992, -624123, -556922, -485855>>,
   <<158652, 240284, 320248, 397990, 472970>>, <<916533, 946644, 970184, 986991, 996948>>, <<831758, 782663, 728137, 668557, 604337>>, <<-17733, -100895, -183357, -264546, -343900>>,
   <<-850920, -891691, -926273, -954427, -975957>>, <<-901776, -862671, -817579, -766813, -710724>>, <<-123544, -40516, 42793, 125806, 207945>>, <<768273, 818889, 863821, 902758, 935430>>,
   <<953743, 925411, 890655, 849719, 802884>>, <<262345, 181113, 98625, 15451, -67829>>, <<-670252, -729699, -784082, -833022, -876182>>, <<-986623, -969630, -945907, -915620, -878977>>,
   <<-395898, -318088, -238071, -156401, -73645>>, <<558814, 625902, 688647, 746612, 799395>>, <<999754, 994440, 982225, 963192, 937475>>, <<521525, 448694, 372750, 294218, 213644>>,
   <<-436192, -509580, -579430, -645260, -706610>>, <<-992877, -999349, -998885, -991489, -977211>>, <<-636715, -570322, -499970, -426148, -349369>>, <<304839, 383056, 458615, 530991, 599681>>,
   <<966125, 984254, 995551, 999939, 997387>>, <<739160, 680532, 617182, 549547, 478099>>, <<-167386, -248868, -328622, -406096, -480751>>, <<-920038, -949460, -972293, -988377, -997601>>,
   <<-826812, -777124, -722042, -661949, -597262>>, <<26581, 109696, 192050, 273071, 352197>>, <<855535, 895662, 929572, 957030, 977847>>, <<897914, 858160, 812449, 761100, 704469>>,
   <<114754, 31669, -51636, -134583, -216595>>, <<-773910, -823938, -868248, -906531, -938523>>, <<-951046, -922021, -886597, -845020, -797577>>, <<-253795, -172402, -89814, -6601, 76657>>,
   <<676794, 735722, 789544, 837886, 880413>>, <<985141, 967426, 942998, 912024, 874721>>, <<387753, 309683, 229463, 147651, 64814>>, <<-566133, -632782, -695039, -752472, -804683>>,
   <<-999520, -993470, -980526, -960776, -934358>>, <<-513953, -440767, -364523, -285748, -204990>>, <<444139, 517175, 586621, 651995, 712845>>, <<993891, 999628, 998427, 990297, 975293>>,
   <<629864, 563028, 492284, 418123, 341061>>, <<-313258, -391218, -466463, -538471, -606742>>, <<-968372, -985781, -996347, -999998, -996709>>, <<-733170, -674021, -610194, -542132, -470307>>,
   <<176105, 257430, 336968, 414167, 488493>>, <<923470, 952200, 974323, 989683, 998174>>, <<821800, 771522, 715889, 655288, 590138>>, <<-35429, -118491, -200730, -281576, -360468>>,
   <<-860085, -899564, -932799, -959561, -979662>>, <<-893984, -853583, -807258, -755330, -698160>>, <<-105958, -22822, 60472, 143347, 225227>>, <<779484, 828921, 872604, 910231, 941541>>,
   <<948272, 918557, 882467, 840252, 792206>>, <<245222, 163676, 80993, -2251, -85480>>, <<-683284, -741689, -794946, -842685, -884576>>, <<-983583, -965149, -940016, -908359, -870398>>,
   <<-379580, -301256, -220840, -138892, -55980>>, <<573406, 639610, 701374, 758271, 809905>>, <<999205, 992421, 978748, 958283, 931167>>, <<506339, 432804, 356265, 277253, 196318>>,
   <<-452053, -524731, -593767, -658682, -719026>>, <<-994830, -999831, -997893, -989029, -973300>>, <<-622966, -555692, -484561, -410067, -332728>>, <<321650, 399348, 474274, 545908, 613753>>,
   <<970542, 987228, 997063, 999977, 995951>>, <<727121, 667455, 603157, 534672, 462476>>, <<-184812, -265974, -345289, -422209, -496198>>, <<-926830, -954868, -976278, -990913, -998670>>,
   <<-816726, -765862, -709682, -648577, -582971>>, <<44272, 127274, 209392, 290057, 368709>>, <<864566, 903394, 935952, 962014, 981399>>, <<889981, 848937, 802001, 749499, 691795>>,
   <<97151, 13971, -69306, -152102, -233843>>, <<-785000, -833840, -876894, -913862, -944487>>, <<-945426, -915023, -878270, -835421, -786774>>, <<-236633, -154939, -72169, 11101, 94294>>,
   <<689719, 747596, 800283, 847417, 888669>>, <<981946, 962793, 936959, 904621, 866005>>, <<371376, 292803, 212198, 130120, 47139>>, <<-580636, -646390, -707657, -764013, -815066>>,
   <<-998814, -991295, -976896, -955717, -927904>>, <<-498688, -424809, -347982, -268739, -187632>>, <<459930, 532244, 600865, 665315, 725148>>, <<995689, 999954, 997278, 987681, 971230>>,
   <<616016, 548310, 476798, 401977, 324367>>, <<-330020, -407448, -482048, -553303, -620718>>, <<-972638, -988601, -997703, -999880, -995118>>, <<-721017, -660839, -596074, -527172, -454611>>,
   <<193502, 274495, 353582, 430215, 503862>>, <<930117, 957459, 978156, 992064, 999087>>, <<811585, 760139, 703417, 641813, 575755>>, <<-53114, -136049, -218040, -298518, -376924>>,
   <<-868981, -907155, -939033, -964394, -983061>>, <<-885911, -844227, -796684, -743611, -685377>>, <<-88339, -5121, 78132, 160844, 242439>>, <<790451, 838693, 881113, 917419, 947357>>,
   <<942504, 911416, 874002, 830523, 781279>>, <<228022, 146187, 63337, -19953, -103104>>, <<-696102, -753446, -805561, -852084, -892694>>, <<-980234, -960365, -933830, -900814, -861546>>,
   <<-363144, -284329, -203541, -121340, -38297>>, <<587819, 653117, 713882, 769693, 820161>>, <<998343, 990090, 974965, 953073, 924567>>, <<490995, 416778, 339669, 260202, 178929>>,
   <<-467772, -539718, -607918, -671898, -731216>>, <<-996472, -1000000, -996588, -986259, -969085>>, <<-609021, -540887, -469000, -393858, -315982>>, <<338361, 415514, 489784, 560654, 627632>>,
   <<974655, 989894, 998262, 999702, 994204>>, <<714855, 654169, 588943, 519629, 446709>>, <<-202180, -282996, -361848, -438189, -511489>>, <<-933332, -959976, -979958, -993139, -999427>>,
   <<-806383, -754359, -697099, -635002, -568497>>, <<61950, 144812, 226669, 306953, 385106>>, <<873326, 910843, 942038, 966696, 984644>>, <<881770, 839449, 791302, 737663, 678904>>,
   <<79518, -3731, -86955, -169575, -251018>>, <<-795843, -843481, -885266, -920906, -950155>>, <<-939510, -907739, -869668, -825561, -775725>>, <<-219396, -137426, -54502, 28800, 111903>>,
   <<702429, 759235, 810773, 856683, 896647>>, <<978444, 957859, 930626, 896934, 857018>>, <<354881, 275831, 194866, 112548, 29450>>, <<-594958, -659795, -720054, -775315, -825194>>,
   <<-997796, -988809, -972960, -950357, -921159>>, <<-483266, -408717, -331331, -251646, -170215>>, <<475576, 547147, 614921, 678427, 737224>>, <<997175, 999966, 995817, 984757, 966862>>,
   <<601975, 533420, 461163, 385706, 307571>>, <<-346678, -423550, -497482, -567962, -634500>>, <<-976598, -991111, -998746, -999448, -993215>>, <<-708638, -647450, -581767, -512047, -438773>>,
   <<210839, 291474, 370085, 446127, 519074>>, <<936472, 962417, 981682, 994134, 999686>>, <<801116, 748518, 690725, 628138, 561191>>, <<-70783, -153565, -235282, -315366, -393261>>,
   <<-877605, -914462, -944972, -968924, -986151>>, <<-877561, -834607, -785860, -731659, -672379>>, <<-70693, 12581, 95768, 178290, 259575>>, <<801170, 848202, 889347, 924319, 952876>>,
   <<936440, 903989, 865264, 820533, 770107>>, <<210751, 128652, 45661, -37648, -120695>>, <<-708702, -764967, -815923, -861216, -900532>>, <<-976578, -955280, -927351, -892986, -852424>>,
   <<-346593, -267313, -186178, -103750, -20602>>, <<602048, 666420, 726166, 780873, 830161>>, <<997168, 987449, 970876, 947565, 917677>>, <<475497, 400622, 322966, 243069, 161485>>,
   <<-483345, -554536, -621878, -684904, -743176>>, <<-997802, -999856, -994971, -983180, -964565>>, <<-594885, -525914, -453292, -377525, -299138>>, <<354966, 431551, 505140, 575224, 641315>>,
   <<978462, 992249, 999149, 999114, 992145>>, <<702364, 640678, 574544, 504423, 430801>>, <<-219485, -299930, -378294, -454033, -526620>>, <<-939541, -964784, -983331, -995053, -999870>>,
   <<-795788, -742620, -684298, -621227, -553844>>, <<79608, 162305, 243875, 323752, 401382>>, <<881813, 918007, 947830, 971075, 987580>>, <<873282, 829697, 780354, 725595, 665800>>,
   <<61860, -21433, -104576, -186994, -268113>>, <<-806437, -852858, -893360, -927662, -955525>>, <<-933299, -900170, -860793, -815442, -764432>>, <<-202091, -119871, -36818, 46490, 129476>>,
   <<714918, 770637, 821007, 865680, 904344>>, <<974635, 952624, 924002, 888967, 847762>>, <<338276, 258772, 177473, 94941, 11751>>, <<-609092, -672994, -732224, -786373, -835064>>,
   <<-996465, -986013, -968718, -944700, -914125>>, <<-467692, -392497, -314577, -234475, -152745>>, <<491074, 561879, 628784, 691325, 749069>>, <<998348, 999665, 994044, 981524, 962191>>,
   <<587746, 518364, 445384, 369313, 290679>>, <<-363228, -439519, -512760, -582443, -648082>>, <<-980252, -993311, -999476, -998704, -991000>>, <<-696037, -633857, -567278, -496762, -422798>>,
   <<228110, 308361, 386472, 461900, 534123>>, <<942534, 967073, 984901, 995893, 999973>>, <<790396, 736662, 677816, 614266, 546452>>, <<-88429, -171033, -252450, -332115, -409475>>,
   <<-885953, -921482, -950615, -973151, -988933>>, <<-868936, -824725, -774790, -719477, -659171>>, <<-53024, 30280, 113374, 195680, 276629>>, <<811638, 857445, 897301, 930930, 958097>>,
   <<930083, 896279, 856254, 810286, 758695>>, <<193414, 111077, 27970, -55331, -138249>>, <<-721080, -776249, -826030, -870078, -908087>>, <<-972617, -949896, -920582, -884879, -843035>>,
   <<-329934, -250213, -168756, -86127, -2901>>, <<616087, 679513, 738223, 791809, 839900>>, <<995681, 984498, 966483, 941760, 910500>>, <<459849, 384340, 306162, 225860, 143990>>,
   <<-498766, -569180, -635643, -697695, -754904>>, <<-998819, -999398, -993041, -979792, -959743>>, <<-580563, -510775, -437443, -361074, -282200>>, <<371460, 447452, 520338, 589614, 654797>>,
   <<981963, 994293, 999722, 998213, 989776>>, <<689654, 626985, 559966, 489059, 414759>>, <<-236720, -316770, -394621, -469734, -541586>>, <<-945455, -969289, -986396, -996656, -999999>>,
   <<-784944, -730649, -671283, -607258, -539019>>, <<97241, 179746, 261004, 340450, 417533>>, <<890023, 924883, 953324, 975149, 990206>>, <<864521, 819686, 769162, 713300, 652488>>,
   <<44182, -39127, -122164, -204354, -285125>>, <<-816778, -861967, -901174, -934127, -960596>>, <<-926796, -892319, -851649, -805068, -752900>>, <<-184723, -102277, -19122, 64166, 147009>>,
   <<727183, 781797, 830985, 874406, 911757>>, <<970520, 947091, 917088, 880720, 838240>>, <<321565, 241633, 160024, 77304, -5952>>, <<-623036, -685982, -744166, -797185, -844672>>,
   <<-994821, -982908, -964174, -938747, -906805>>, <<-451973, -376154, -297725, -217230, -135226>>, <<506417, 576434, 642450, 704007, 760679>>, <<999209, 999051, 991959, 977983, 957219>>,
   <<573332, 503144, 429465, 352805, 273696>>, <<-379664, -455351, -527878, -596741, -661462>>, <<-983599, -995199, -999892, -997646, -988475>>, <<-683218, -620066, -552611, -481321, -406689>>,
   <<245310, 325152, 402738, 477528, 549004>>, <<948301, 971427, 987811, 997339, 999946>>, <<779428, 724576, 664695, 600201, 531541>>, <<-106048, -188448, -269539, -348760, -425560>>,
   <<-894024, -928214, -955961, -977073, -991404>>, <<-860039, -814585, -763477, -707070, -645756>>, <<-35339, 47969, 130944, 213009, 293597>>, <<821852, 866420, 904975, 937249, 963018>>,
   <<923435, 888288, 846976, 799785, 747044>>, <<176016, 93468, 10271, -72997, -155759>>, <<-733232, -787287, -835878, -878667, -915358>>, <<-968350, -944214, -913524, -876495, -833382>>,
   <<-313172, -233035, -151281, -68478, 14802>>, <<629934, 692394, 750048, 802497, 849376>>, <<993881, 981239, 961787, 935659, 903037>>, <<444058, 367937, 289262, 208580, 126450>>,
   <<-514031, -583645, -649209, -710267, -766395>>, <<-999523, -998627, -990801, -976098, -954621>>, <<-566058, -495476, -421456, -344510, -265173>>, <<387837, 463213, 535374, 603819, 668073>>,
   <<985156, 996026, 999982, 996999, 987096>>, <<676727, 613097, 545212, 473542, 398586>>, <<-253882, -333511, -410825, -485287, -556382>>, <<-951074, -973491, -989151, -997946, -999816>>,
   <<-773853, -718448, -658057, -593099, -524024>>, <<114844, 197132, 278051, 357041, 433553>>, <<897954, 931469, 958520, 978918, 992522>>, <<855488, 809418, 757729, 700782, 638971>>,
   <<26490, -56809, -139715, -221650, -302048>>, <<-826863, -870806, -908706, -940299, -965366>>, <<-920003, -884189, -842238, -794442, -741131>>, <<-167297, -84652, -1420, 81821, 164495>>,
   <<739221, 792712, 840702, 882858, 918885>>, <<966102, 941261, 909887, 872198, 828456>>, <<304753, 224418, 142525, 59643, -23652>>, <<-636785, -698754, -755874, -807748, -854015>>,
   <<-992866, -979495, -959327, -932500, -899201>>, <<-436111, -359693, -280779, -199916, -117666>>, <<521602, 590809, 655915, 716469, 772050>>, <<999756, 998123, 989563, 974135, 951946>>,
   <<558739, 487768, 413411, 336186, 256627>>, <<-395981, -471040, -542830, -610852, -674634>>, <<-986638, -996776, -999996, -996276, -985641>>, <<-670185, -606081, -537771, -465729, -390454>>,
   <<262433, 341841, 418878, 493007, 563714>>, <<953770, 975476, 990412, 998473, 999605>>, <<768216, 712262, 651365, 585948, 516464>>, <<-123633, -205803, -286544, -365296, -441513>>,
   <<-901815, -934654, -961006, -980689, -993565>>, <<-850872, -804189, -751925, -694441, -632138>>, <<-17642, 65643, 148473, 230272, 310473>>, <<831808, 875123, 912364, 943274, 967636>>,
   <<916497, 880018, 837432, 789034, 735159>>, <<158563, 75829, -7432, -90641, -173220>>, <<-745154, -798078, -845463, -886981, -922342>>, <<-963780, -938236, -906180, -867835, -823467>>,
   <<-296311, -215784, -133760, -50806, 32499>>, <<643584, 705058, 761639, 812933, 858586>>, <<991771, 977673, 956789, 929265, 895292>>, <<428128, 351419, 272272, 191235, 108870>>,
   <<-529134, -597928, -662571, -722617, -777646>>, <<-999913, -997543, -988250, -972098, -949199>>, <<-551377, -480023, -405337, -327838, -248063>>, <<404092, 478828, 550241, 617835, 681141>>,
   <<988040, 997446, 999929, 995472, 984106>>, <<663588, 599016, 530287, 457877, 382289>>, <<-270964, -350147, -426900, -500689, -571004>>, <<-956394, -977387, -991597, -998924, -999319>>,
   <<-762520, -706022, -644625, -578753, -508865>>, <<132411, 214456, 295012, 373520, 449436>>, <<905603, 937764, 963415, 982380, 994527>>, <<846188, 798896, 746059, 688044, 625254>>,
   <<8791, -74474, -157221, -238877, -318875>>, <<-836689, -879373, -915953, -946176, -969833>>, <<-912921, -875781, -832563, -783566, -729131>>, <<-149818, -67001, 16282, 99451, 181930>>,
   <<751027, 803379, 850156, 891033, 925725>>, <<961380, 935136, 902401, 863403, 818412>>, <<287845, 207132, 124982, 41964, -41346>>, <<-650334, -711308, -767345, -818057, -863091>>,
   <<-990600, -975775, -954179, -925960, -891315>>, <<-420113, -343120, -263745, -182540, -100068>>, <<536623, 604998, 669174, 728706, 783180>>, <<999990, 996883, 986858, 969983, 946376>>,
   <<543970, 472238, 397228, 319462, 239478>>, <<-412174, -486581, -557611, -624772, -687595>>, <<-989368, -998040, -999786, -994593, -982497>>, <<-656942, -591906, -522763, -449991, -374096>>,
   <<279473, 358423, 434886, 508330, 578247>>, <<958941, 979219, 992702, 999295, 998952>>, <<756763, 699725, 637832, 571511, 501224>>, <<-141180, -223093, -303458, -381717, -457327>>,
   <<-909323, -940802, -965751, -983997, -995414>>, <<-841439, -793542, -740137, -681595, -618323>>, <<60, 83296, 165955, 247462, 327251>>, <<841503, 883552, 919468, 949003, 971952>>,
   <<909272, 871473, 827626, 778035, 723044>>, <<141060, 58166, -25132, -108256, -190628>>, <<-756842, -808619, -854784, -895017, -929037>>, <<-958908, -931964, -898552, -858904, -813295>>,
   <<-279358, -198466, -116196, -33119, 50187>>, <<657032, 717501, 772990, 823115, 867526>>, <<989349, 973800, 951492, 922580, 887266>>, <<412063, 334791, 255196, 173830, 91257>>,
   <<-544072, -612023, -675726, -734740, -788654>>, <<-999990, -996147, -985390, -967793, -943480>>, <<-536523, -464418, -389091, -311063, -230876>>, <<420221, 494294, 564936, 631657, 693994>>,
   <<990615, 998554, 999563, 993634, 980809>>, <<650242, 584748, 515195, 442068, 365872>>, <<-287962, -366673, -442840, -515934, -585447>>, <<-961415, -980977, -993731, -999589, -998508>>,
   <<-750948, -693375, -630991, -564227, -493547>>, <<149936, 231712, 311879, 389882, 465179>>, <<912969, 943764, 968009, 985535, 996221>>, <<836622, 788123, 734155, 675091, 611341>>,
   <<-8912, -92115, -174678, -256029, -335603>>, <<-846253, -887663, -922913, -951757, -973996>>, <<-905553, -867099, -822627, -772445, -716902>>, <<-132292, -49328, 33979, 117050, 199308>>,
   <<762597, 813794, 859344, 898929, 932275>>, <<956358, 928718, 894632, 854336, 808112>>, <<270847, 189782, 107399, 24271, -59026>>, <<-663679, -723639, -778576, -828110, -871896>>,
   <<-988023, -971750, -948732, -919130, -883149>>, <<-403983, -326439, -246629, -165107, -82440>>, <<551476, 618998, 682224, 740714, 794064>>, <<999911, 995331, 983842, 965526, 940509>>,
   <<529031, 456560, 380921, 302637, 222253>>, <<-428238, -501970, -572218, -638495, -700341>>, <<-991787, -998992, -999263, -992599, -979046>>, <<-643492, -577545, -507590, -434112, -357621>>,
   <<296426, 374893, 450758, 523495, 592599>>, <<963811, 982656, 994681, 999803, 997985>>, <<745072, 686969, 624098, 556896, 485828>>, <<-158683, -240314, -320278, -398019, -472997>>,
   <<-916546, -946654, -970193, -986997, -996952>>, <<-831742, -782645, -728117, -668535, -604314>>, <<17762, 100924, 183386, 264574, 343927>>, <<850935, 891704, 926284, 954435, 975962>>,
   <<901762, 862655, 817561, 766792, 710702>>, <<123513, 40485, -42825, -125837, -207975>>, <<-768294, -818907, -863837, -902772, -935441>>, <<-953735, -925400, -890643, -849704, -802867>>,
   <<-262317, -181085, -98596, -15422, 67858>>, <<670273, 729719, 784099, 833038, 876195>>, <<986617, 969622, 945897, 915606, 878962>>, <<395869, 318059, 238040, 156370, 73614>>,
   <<-558840, -625927, -688670, -746633, -799414>>, <<-999754, -994438, -982220, -963185, -937465>>, <<-521500, -448668, -372723, -294190, -213616>>, <<436219, 509605, 579454, 645282, 706631>>,
   <<992879, 999349, 998883, 991484, 977204>>, <<636691, 570296, 499943, 426120, 349340>>, <<-304869, -383085, -458643, -531017, -599706>>, <<-966134, -984260, -995555, -999940, -997385>>,
   <<-739141, -680511, -617159, -549523, -478074>>, <<167415, 248896, 328650, 406122, 480776>>, <<920049, 949469, 972299, 988380, 997602>>, <<826794, 777104, 722020, 661926, 597237>>,
   <<-26612, -109727, -192081, -273101, -352226>>, <<-855552, -895676, -929584, -957040, -977854>>, <<-897902, -858145, -812433, -761082, -704448>>, <<-114725, -31640, 51665, 134612, 216624>>,
   <<773928, 823954, 868262, 906543, 938532>>, <<951036, 922008, 886582, 845002, 797558>>, <<253765, 172372, 89783, 6570, -76688>>, <<-676817, -735743, -789563, -837903, -880428>>,
   <<-985136, -967420, -942989, -912013, -874707>>, <<-387727, -309655, -229435, -147622, -64785>>, <<566157, 632804, 695059, 752491, 804699>>, <<999518, 993466, 980519, 960767, 934347>>,
   <<513926, 440739, 364494, 285718, 204959>>, <<-444167, -517201, -586646, -652019, -712867>>, <<-993896, -999630, -998427, -990293, -975287>>, <<-629842, -563004, -492259, -418097, -341033>>,
   <<313286, 391245, 466489, 538496, 606765>>, <<968379, 985785, 996348, 999997, 996706>>, <<733149, 673998, 610169, 542106, 470279>>, <<-176135, -257460, -336997, -414196, -488520>>,
   <<-923482, -952211, -974330, -989688, -998177>>, <<-821784, -771504, -715869, -655266, -590115>>, <<35458, 118520, 200759, 281604, 360495>>, <<860100, 899576, 932809, 959568, 979667>>,
   <<893969, 853566, 807239, 755309, 698137>>, <<105927, 22791, -60504, -143378, -225257>>, <<-779504, -828939, -872620, -910245, -941552>>, <<-948264, -918546, -882454, -840237, -792189>>,
   <<-245194, -163647, -80964, 2280, 85509>>, <<683305, 741708, 794963, 842701, 884589>>, <<983576, 965140, 940005, 908345, 870382>>, <<379551, 301226, 220810, 138861, 55949>>,
   <<-573432, -639634, -701397, -758292, -809924>>, <<-999205, -992418, -978743, -958275, -931157>>, <<-506314, -432778, -356238, -277225, -196289>>, <<452079, 524756, 593790, 658704, 719046>>,
   <<994832, 999831, 997890, 989023, 973292>>, <<622941, 555666, 484534, 410039, 332698>>, <<-321680, -399376, -474301, -545934, -613778>>, <<-970550, -987234, -997066, -999978, -995950>>,
   <<-727102, -667434, -603134, -534647, -462451>>, <<184840, 266002, 345317, 422235, 496223>>, <<926841, 954876, 976284, 990916, 998671>>, <<816707, 765841, 709660, 648553, 582945>>,
   <<-44303, -127305, -209423, -290087, -368738>>, <<-864582, -903408, -935963, -962023, -981406>>, <<-889969, -848922, -801984, -749480, -691774>>, <<-97122, -13942, 69335, 152131, 233871>>,
   <<785017, 833856, 876908, 913873, 944496>>, <<945415, 915010, 878255, 835404, 786755>>, <<236602, 154908, 72138, -11132, -94326>>, <<-689742, -747617, -800303, -847434, -888684>>,
   <<-981941, -962786, -936949, -904609, -865991>>, <<-371349, -292775, -212169, -130091, -47110>>, <<580660, 646412, 707677, 764031, 815083>>, <<998812, 991290, 976888, 955707, 927892>>,
   <<498660, 424780, 347952, 268709, 187601>>, <<-459958, -532271, -600890, -665339, -725170>>, <<-995693, -999955, -997277, -987678, -971223>>, <<-615993, -548286, -476773, -401951, -324339>>,
   <<330047, 407475, 482074, 553327, 620740>>, <<972644, 988604, 997704, 999878, 995114>>, <<720995, 660815, 596049, 527145, 454584>>, <<-193533, -274525, -353611, -430243, -503889>>,
   <<-930129, -957468, -978163, -992069, -999089>>, <<-811569, -760121, -703397, -641791, -575731>>, <<53143, 136078, 218069, 298546, 376950>>, <<868995, 907167, 939042, 964401, 983065>>,
   <<885896, 844210, 796664, 743590, 685354>>, <<88308, 5090, -78164, -160875, -242469>>, <<-790471, -838710, -881129, -917432, -947368>>, <<-942495, -911405, -873989, -830507, -781261>>,
   <<-227994, -146158, -63308, 19982, 103133>>, <<696123, 753465, 805577, 852099, 892706>>, <<980227, 960355, 933818, 900800, 861530>>, <<363115, 284299, 203510, 121309, 38266>>,
   <<-587844, -653141, -713904, -769713, -820180>>, <<-998342, -990087, -974959, -953065, -924556>>, <<-490970, -416752, -339641, -260174, -178901>>, <<467798, 539742, 607941, 671920, 731235>>,
   <<996474, 999999, 996584, 986253, 969076>>, <<608996, 540861, 468973, 393829, 315953>>, <<-338391, -415543, -489811, -560679, -627657>>, <<-974663, -989899, -998265, -999703, -994202>>,
   <<-714835, -654147, -588919, -519604, -446683>>, <<202208, 283024, 361876, 438215, 511514>>, <<933342, 959984, 979963, 993141, 999427>>, <<806364, 754338, 697077, 634977, 568471>>,
   <<-61981, -144843, -226699, -306982, -385135>>, <<-873342, -910857, -942050, -966704, -984650>>, <<-881757, -839433, -791284, -737643, -678883>>, <<-79489, 3760, 86984, 169603, 251046>>,
   <<795860, 843497, 885279, 920917, 950163>>, <<939499, 907725, 869652, 825543, 775705>>, <<219366, 137395, 54471, -28831, -111934>>, <<-702451, -759256, -810791, -856699, -896661>>,
   <<-978438, -957851, -930616, -896922, -857003>>, <<-354854, -275803, -194837, -112519, -29421>>, <<594981, 659817, 720074, 775333, 825210>>, <<997793, 988804, 972952, 950347, 921146>>,
   <<483238, 408688, 331302, 251616, 170184>>, <<-475604, -547173, -614946, -678450, -737245>>, <<-997178, -999967, -995815, -984753, -966855>>, <<-601952, -533396, -461138, -385679, -307543>>,
   <<346706, 423576, 497508, 567986, 634522>>, <<976603, 991114, 998746, 999446, 993210>>, <<708616, 647426, 581742, 512020, 438745>>, <<-210870, -291503, -370114, -446155, -519101>>,
   <<-936484, -962426, -981689, -994138, -999688>>, <<-801099, -748499, -690704, -628115, -561167>>, <<70812, 153594, 235310, 315393, 393287>>, <<877618, 914473, 944981, 968931, 986155>>,
   <<877546, 834589, 785840, 731637, 672356>>, <<70662, -12613, -95799, -178321, -259605>>, <<-801189, -848219, -889362, -924332, -952886>>, <<-936431, -903977, -865250, -820517, -770089>>,
   <<-210723, -128623, -45632, 37677, 120724>>, <<708722, 764986, 815939, 861230, 900544>>, <<976571, 955270, 927339, 892972, 852407>>, <<346564, 267283, 186147, 103719, 20571>>,
   <<-602073, -666443, -726188, -780893, -830179>>, <<-997167, -987445, -970870, -947556, -917666>>, <<-475471, -400595, -322939, -243041, -161456>>, <<483370, 554560, 621900, 684925, 743195>>,
   <<997803, 999854, 994967, 983173, 964556>>, <<594860, 525887, 453265, 377496, 299108>>, <<-354995, -431579, -505167, -575249, -641339>>, <<-978470, -992254, -999151, -999114, -992143>>,
   <<-702344, -640655, -574520, -504398, -430775>>, <<219513, 299958, 378321, 454058, 526645>>, <<939550, 964791, 983336, 995055, 999869>>, <<795769, 742599, 684275, 621202, 553818>>,
   <<-79639, -162335, -243905, -323782, -401411>>, <<-881828, -918020, -947841, -971083, -987585>>, <<-873268, -829682, -780336, -725575, -665779>>, <<-61831, 21462, 104605, 187022, 268141>>,
   <<806454, 852873, 893373, 927672, 955533>>, <<933288, 900156, 860777, 815424, 764412>>, <<202061, 119840, 36787, -46522, -129507>>, <<-714940, -770657, -821026, -865696, -904358>>,
   <<-974629, -952616, -923991, -888954, -847747>>, <<-338249, -258744, -177444, -94912, -11722>>, <<609115, 673015, 732244, 786391, 835080>>, <<996461, 986007, 968710, 944689, 914112>>,
   <<467665, 392468, 314548, 234444, 152714>>, <<-491101, -561905, -628808, -691348, -749089>>, <<-998351, -999665, -994042, -981519, -962184>>, <<-587722, -518339, -445358, -369286, -290651>>,
   <<363255, 439546, 512785, 582466, 648104>>, <<980257, 993313, 999476, 998701, 990995>>, <<696015, 633833, 567252, 496735, 422769>>, <<-228141, -308391, -386501, -461928, -534149>>,
   <<-942545, -967082, -984907, -995896, -999974>>, <<-790378, -736643, -677795, -614243, -546428>>, <<88458, 171062, 252478, 332142, 409501>>, <<885966, 921493, 950624, 973157, 988936>>,
   <<868920, 824707, 774770, 719455, 659147>>, <<52993, -30311, -113405, -195711, -276659>>, <<-811657, -857462, -897316, -930942, -958107>>, <<-930073, -896266, -856239, -810269, -758676>>,
   <<-193385, -111048, -27941, 55360, 138278>>, <<721100, 776267, 826046, 870092, 908099>>, <<972609, 949885, 920569, 884864, 843018>>, <<329905, 250183, 168725, 86096, 2870>>,
   <<-616112, -679536, -738244, -791829, -839917>>, <<-995679, -984494, -966476, -941750, -910489>>, <<-459824, -384313, -306135, -225832, -143961>>, <<498791, 569203, 635665, 697715, 754923>>,
   <<998819, 999396, 993037, 979785, 959734>>, <<580537, 510748, 437414, 361045, 282170>>, <<-371489, -447480, -520365, -589639, -654821>>, <<-981970, -994297, -999724, -998212, -989772>>,
   <<-689633, -626963, -559942, -489034, -414732>>, <<236749, 316798, 394648, 469759, 541610>>, <<945464, 969296, 986400, 996658, 999998>>, <<784924, 730627, 671259, 607233, 538992>>,
   <<-97272, -179777, -261034, -340479, -417561>>, <<-890037, -924895, -953334, -975157, -990211>>, <<-864506, -819670, -769144, -713280, -652466>>, <<-44153, 39156, 122193, 204382, 285153>>,
   <<816794, 861982, 901186, 934136, 960603>>, <<926784, 892305, 851632, 805049, 752879>>, <<184692, 102247, 19091, -64197, -147039>>, <<-727205, -781817, -831003, -874421, -911771>>,
   <<-970514, -947082, -917077, -880707, -838225>>, <<-321537, -241605, -159995, -77275, 5981>>, <<623059, 686003, 744185, 797203, 844687>>, <<994817, 982902, 964165, 938736, 906792>>,
   <<451945, 376125, 297695, 217199, 135196>>, <<-506444, -576460, -642474, -704030, -760699>>, <<-999211, -999051, -991956, -977977, -957211>>, <<-573308, -503119, -429439, -352778, -273668>>,
   <<379691, 455377, 527902, 596764, 661484>>, <<983604, 995201, 999892, 997643, 988470>>, <<683195, 620042, 552585, 481293, 406661>>, <<-245340, -325182, -402766, -477556, -549031>>,
   <<-948311, -971435, -987817, -997343, -999946>>, <<-779410, -724556, -664673, -600178, -531516>>, <<106077, 188476, 269567, 348787, 425587>>, <<894037, 928224, 955968, 977078, 991407>>,
   <<860023, 814566, 763456, 707048, 645732>>, <<35307, -48000, -130975, -213040, -293627>>, <<-821870, -866436, -904988, -937260, -963027>>, <<-923424, -888275, -846961, -799768, -747025>>,
   <<-175987, -93439, -10242, 73027, 155788>>, <<733251, 787304, 835893, 878680, 915369>>, <<968341, 944203, 913511, 876479, 833364>>, <<313142, 233005, 151251, 68447, -14833>>,
   <<-629959, -692417, -750069, -802516, -849393>>, <<-993879, -981234, -961779, -935649, -903026>>, <<-444032, -367910, -289235, -208552, -126421>>, <<514056, 583669, 649231, 710287, 766414>>,
   <<999522, 998625, 990796, 976091, 954611>>, <<566033, 495449, 421427, 344480, 265143>>, <<-387865, -463240, -535400, -603844, -668097>>, <<-985162, -996029, -999984, -996998, -987092>>,
   <<-676706, -613074, -545187, -473517, -398560>>, <<253910, 333538, 410851, 485313, 556406>>, <<951082, 973497, 989155, 997947, 999814>>, <<773833, 718426, 658033, 593073, 523997>>,
   <<-114875, -197162, -278081, -357070, -433581>>, <<-897968, -931481, -958530, -978925, -992527>>, <<-855474, -809401, -757711, -700762, -638949>>, <<-26461, 56838, 139743, 221679, 302075>>,
   <<826879, 870820, 908718, 940308, 965373>>, <<919990, 884174, 842221, 794422, 741110>>, <<167266, 84621, 1389, -81852, -164526>>, <<-739242, -792732, -840720, -882873, -918898>>,
   <<-966095, -941252, -909875, -872184, -828440>>, <<-304725, -224389, -142496, -59614, 23681>>, <<636807, 698775, 755893, 807764, 854030>>, <<992861, 979488, 959317, 932488, 899187>>,
   <<436083, 359664, 280749, 199886, 117635>>, <<-521629, -590834, -655939, -716491, -772070>>, <<-999758, -998123, -989560, -974130, -951938>>, <<-558715, -487742, -413385, -336158, -256599>>,
   <<396008, 471066, 542854, 610875, 674656>>, <<986642, 996777, 999995, 996272, 985635>>, <<670162, 606056, 537745, 465701, 390425>>, <<-262463, -341871, -418906, -493034, -563740>>,
   <<-953780, -975484, -990417, -998476, -999605>>, <<-768197, -712242, -651344, -585924, -516439>>, <<123662, 205831, 286572, 365323, 441539>>, <<901827, 934664, 961014, 980694, 993567>>,
   <<850856, 804170, 751904, 694419, 632114>>, <<17611, -65674, -148503, -230302, -310502>>, <<-831825, -875138, -912378, -943285, -967645>>, <<-916486, -880005, -837417, -789016, -735140>>,
   <<-158534, -75799, 7461, 90670, 173249>>, <<745173, 798095, 845479, 886994, 922353>>, <<963771, 938224, 906167, 867819, 823449>>, <<296282, 215754, 133729, 50775, -32530>>,
   <<-643608, -705080, -761659, -812952, -858602>>, <<-991768, -977667, -956782, -929255, -895279>>, <<-428101, -351392, -272244, -191206, -108841>>, <<529159, 597951, 662593, 722636, 777664>>,
   <<999913, 997540, 988245, 972090, 949189>>, <<551351, 479995, 405308, 327808, 248033>>, <<-404121, -478856, -550267, -617860, -681164>>, <<-988046, -997449, -999930, -995470, -984102>>,
   <<-663567, -598993, -530262, -457851, -382262>>, <<270992, 350174, 426926, 500714, 571028>>, <<956402, 977392, 991600, 998925, 999317>>, <<762499, 706000, 644601, 578728, 508838>>,
   <<-132442, -214486, -295041, -373549, -449464>>, <<-905617, -937775, -963424, -982387, -994532>>, <<-846173, -798879, -746040, -688023, -625232>>, <<-8761, 74503, 157250, 238905, 318903>>,
   <<836705, 879386, 915964, 946185, 969839>>, <<912908, 875765, 832545, 783546, 729109>>, <<149787, 66970, -16313, -99482, -181961>>, <<-751047, -803398, -850173, -891047, -925737>>,
   <<-961373, -935126, -902389, -863388, -818396>>, <<-287817, -207104, -124953, -41934, 41375>>, <<650356, 711328, 767364, 818073, 863105>>, <<990594, 975768, 954169, 925948, 891300>>,
   <<420084, 343090, 263715, 182510, 100038>>, <<-536650, -605023, -669198, -728727, -783200>>, <<-999991, -996882, -986854, -969976, -946367>>, <<-543946, -472212, -397202, -319434, -239449>>,
   <<412200, 486607, 557635, 624794, 687616>>, <<989371, 998041, 999784, 994589, 982490>>, <<656918, 591881, 522736, 449963, 374067>>, <<-279503, -358452, -434914, -508357, -578273>>,
   <<-958950, -979227, -992707, -999297, -998951>>, <<-756744, -699705, -637810, -571488, -501199>>, <<141209, 223122, 303486, 381744, 457353>>, <<909335, 940811, 965758, 984002, 995416>>,
   <<841422, 793522, 740116, 681572, 618298>>, <<-91, -83328, -165986, -247492, -327281>>, <<-841520, -883567, -919481, -949014, -971960>>, <<-909260, -871459, -827610, -778017, -723024>>,
   <<-141031, -58137, 25161, 108285, 190656>>, <<756861, 808636, 854799, 895029, 929047>>, <<958898, 931952, 898538, 858888, 813276>>, <<279328, 198435, 116165, 33088, -50218>>,
   <<-657055, -717523, -773010, -823133, -867542>>, <<-989346, -973794, -951484, -922570, -887253>>, <<-412037, -334764, -255168, -173801, -91228>>, <<544096, 612046, 675748, 734759, 788671>>,
   <<999989, 996143, 985383, 967785, 943469>>, <<536496, 464391, 389062, 311033, 230845>>, <<-420250, -494321, -564962, -631682, -694017>>, <<-990620, -998557, -999563, -993631, -980804>>,
   <<-650220, -584724, -515171, -442042, -365844>>, <<287989, 366700, 442866, 515959, 585470>>, <<961422, 980982, 993734, 999589, 998506>>, <<750927, 693353, 630966, 564201, 493519>>,
   <<-149967, -231742, -311909, -389911, -465207>>, <<-912983, -943775, -968017, -985541, -996225>>, <<-836607, -788106, -734135, -675069, -611318>>, <<8941, 92144, 174707, 256057, 335631>>,
   <<846268, 887676, 922924, 951766, 974002>>, <<905539, 867083, 822608, 772425, 716880>>, <<132262, 49297, -34010, -117081, -199339>>, <<-762617, -813813, -859360, -898943, -932287>>,
   <<-956350, -928707, -894619, -854322, -808095>>, <<-270819, -189753, -107370, -24242, 59055>>, <<663701, 723659, 778594, 828126, 871910>>, <<988017, 971742, 948722, 919118, 883134>>,
   <<403954, 326409, 246599, 165077, 82409>>, <<-551503, -619023, -682247, -740736, -794083>>, <<-999911, -995329, -983838, -965519, -940499>>, <<-529006, -456534, -380894, -302609, -222225>>,
   <<428264, 501995, 572242, 638518, 700362>>, <<991790, 998992, 999261, 992594, 979038>>, <<643468, 577520, 507563, 434084, 357591>>, <<-296455, -374922, -450786, -523522, -592624>>,
   <<-963820, -982663, -994685, -999804, -997984>>, <<-745053, -686948, -624076, -556872, -485803>>, <<158711, 240343, 320306, 398046, 473023>>, <<916557, 946663, 970199, 987001, 996953>>,
   <<831724, 782626, 728095, 668512, 604289>>, <<-17793, -100955, -183416, -264605, -343956>>, <<-850952, -891718, -926296, -954445, -975970>>, <<-901750, -862641, -817544, -766774, -710682>>,
   <<-123484, -40455, 42854, 125865, 208004>>, <<768312, 818924, 863852, 902784, 935451>>, <<953725, 925388, 890628, 849687, 802848>>, <<262287, 181054, 98565, 15391, -67890>>,
   <<-670297, -729740, -784119, -833056, -876211>>, <<-986613, -969615, -945888, -915595, -878948>>, <<-395843, -318031, -238012, -156341, -73585>>, <<558864, 625949, 688690, 746652, 799431>>,
   <<999753, 994434, 982214, 963176, 937454>>, <<521473, 448640, 372694, 294160, 213585>>, <<-436247, -509632, -579480, -645306, -706653>>, <<-992884, -999351, -998882, -991481, -977198>>,
   <<-636669, -570272, -499918, -426094, -349312>>, <<304896, 383112, 458668, 531042, 599729>>, <<966141, 984264, 995557, 999939, 997382>>, <<739119, 680488, 617134, 549497, 478046>>,
   <<-167445, -248926, -328679, -406151, -480804>>, <<-920062, -949479, -972307, -988386, -997605>>, <<-826778, -777086, -722001, -661904, -597214>>, <<26641, 109756, 192109, 273129, 352253>>,
   <<855566, 895688, 929594, 957048, 977860>>, <<897887, 858129, 812414, 761061, 704426>>, <<114694, 31609, -51696, -134642, -216654>>, <<-773948, -823972, -868278, -906557, -938544>>,
   <<-951027, -921998, -886569, -844987, -797541>>, <<-253736, -172343, -89753, -6541, 76717>>, <<676838, 735763, 789581, 837919, 880441>>, <<985130, 967411, 942977, 911999, 874691>>,
   <<387698, 309626, 229405, 147592, 64754>>, <<-566183, -632828, -695082, -752512, -804718>>, <<-999518, -993464, -980514, -960760, -934337>>, <<-513901, -440713, -364466, -285690, -204931>>,
   <<444193, 517226, 586670, 652041, 712887>>, <<993898, 999630, 998424, 990288, 975280>>, <<629817, 562978, 492231, 418068, 341004>>, <<-313315, -391274, -466517, -538522, -606790>>,
   <<-968388, -985791, -996352, -999998, -996704>>, <<-733129, -673977, -610146, -542081, -470254>>, <<176164, 257488, 337025, 414222, 488545>>, <<923493, 952219, 974336, 989691, 998178>>,
   <<821766, 771484, 715847, 655242, 590090>>, <<-35489, -118551, -200789, -281634, -360524>>, <<-860116, -899590, -932821, -959578, -979674>>, <<-893957, -853551, -807222, -755291, -698117>>,
   <<-105898, -22762, 60533, 143407, 225286>>, <<779522, 828955, 872634, 910256, 941561>>, <<948253, 918533, 882439, 840220, 792169>>, <<245164, 163616, 80933, -2311, -85540>>,
   <<-683328, -741729, -794982, -842718, -884604>>, <<-983572, -965133, -939995, -908334, -870368>>, <<-379525, -301198, -220782, -138832, -55920>>, <<573455, 639656, 701417, 758310, 809940>>,
   <<999203, 992413, 978736, 958266, 931145>>, <<506287, 432750, 356209, 277195, 196258>>, <<-452107, -524782, -593816, -658727, -719068>>, <<-994836, -999832, -997889, -989020, -973287>>,
   <<-622918, -555642, -484508, -410012, -332671>>, <<321708, 399403, 474327, 545958, 613800>>, <<970557, 987238, 997067, 999977, 995946>>, <<727080, 667410, 603109, 534621, 462423>>,
   <<-184871, -266032, -345346, -422263, -496250>>, <<-926853, -954886, -976291, -990921, -998673>>, <<-816691, -765823, -709640, -648531, -582922>>, <<44333, 127334, 209451, 290115, 368765>>,
   <<864596, 903420, 935973, 962030, 981411>>, <<889954, 848905, 801965, 749459, 691751>>, <<97091, 13911, -69366, -152162, -233902>>, <<-785037, -833874, -876923, -913886, -944507>>,
   <<-945406, -914999, -878241, -835388, -786737>>, <<-236574, -154879, -72109, 11162, 94355>>, <<689763, 747636, 800320, 847449, 888697>>, <<981935, 962777, 936938, 904595, 865975>>,
   <<371320, 292745, 212139, 130060, 47079>>, <<-580685, -646436, -707700, -764052, -815101>>, <<-998811, -991287, -976883, -955699, -927882>>, <<-498635, -424754, -347925, -268681, -187573>>,
   <<459983, 532295, 600913, 665360, 725189>>, <<995695, 999955, 997274, 987672, 971215>>, <<615969, 548260, 476745, 401922, 324310>>, <<-330077, -407503, -482101, -553353, -620765>>,
   <<-972652, -988610, -997707, -999879, -995112>>, <<-720976, -660794, -596026, -527121, -454558>>, <<193562, 274553, 353638, 430269, 503914>>, <<930139, 957476, 978168, 992071, 999089>>,
   <<811550, 760100, 703374, 641767, 575706>>, <<-53174, -136109, -218099, -298575, -376979>>, <<-869011, -907180, -939054, -964409, -983072>>, <<-885883, -844195, -796647, -743570, -685333>>,
   <<-88279, -5061, 78193, 160903, 242497>>, <<790488, 838726, 881142, 917443, 947376>>, <<942484, 911391, 873973, 830489, 781241>>, <<227964, 146127, 63277, -20013, -103164>>,
   <<-696146, -753486, -805596, -852116, -892721>>, <<-980222, -960348, -933808, -900788, -861515>>, <<-363088, -284271, -203482, -121280, -38237>>, <<587868, 653163, 713925, 769731, 820196>>,
   <<998340, 990081, 974951, 953055, 924544>>, <<490942, 416723, 339612, 260144, 178870>>, <<-467826, -539769, -607966, -671943, -731257>>, <<-996477, -1000000, -996583, -986249, -969070>>,
   <<-608973, -540837, -468947, -393803, -315925>>, <<338418, 415569, 489836, 560703, 627679>>, <<974668, 989902, 998266, 999701, 994198>>, <<714813, 654123, 588894, 519577, 446655>>,
   <<-202239, -283054, -361905, -438244, -511541>>, <<-933353, -959993, -979970, -993146, -999429>>, <<-806348, -754320, -697056, -634955, -568447>>, <<62010, 144872, 226728, 307010, 385162>>,
   <<873356, 910868, 942059, 966711, 984654>>, <<881741, 839416, 791265, 737622, 678859>>, <<79458, -3792, -87015, -169634, -251076>>, <<-795879, -843514, -885294, -920930, -950174>>,
   <<-939489, -907714, -869638, -825527, -775687>>, <<-219338, -137366, -54442, 28861, 111963>>, <<702472, 759275, 810808, 856714, 896674>>, <<978431, 957841, 930604, 896908, 856986>>,
   <<354825, 275773, 194807, 112488, 29389>>, <<-595006, -659840, -720095, -775353, -825229>>, <<-997792, -988800, -972946, -950339, -921136>>, <<-483213, -408662, -331275, -251588, -170155>>,
   <<475629, 547198, 614968, 678471, 737264>>, <<997180, 999966, 995812, 984746, 966846>>, <<601927, 533369, 461110, 385650, 307514>>, <<-346735, -423605, -497535, -568012, -634546>>,
   <<-976611, -991119, -998749, -999446, -993208>>, <<-708596, -647404, -581718, -511995, -438719>>, <<210898, 291531, 370141, 446181, 519125>>, <<936493, 962433, 981694, 994141, 999688>>,
   <<801080, 748478, 690681, 628091, 561141>>, <<-70843, -153625, -235341, -315423, -393316>>, <<-877634, -914486, -944992, -968939, -986161>>, <<-877532, -834574, -785823, -731617, -672335>>,
   <<-70632, 12642, 95828, 178349, 259633>>, <<801206, 848234, 889374, 924342, 952895>>, <<936419, 903963, 865233, 820499, 770069>>, <<210692, 128593, 45600, -37708, -120755>>,
   <<-708745, -765006, -815958, -861247, -900558>>, <<-976565, -955262, -927329, -892959, -852392>>, <<-346537, -267255, -186118, -103690, -20542>>, <<602096, 666465, 726208, 780911, 830194>>,
   <<997164, 987439, 970862, 947546, 917653>>, <<475444, 400566, 322909, 243011, 161426>>, <<-483398, -554586, -621925, -684948, -743217>>, <<-997806, -999855, -994964, -983169, -964549>>,
   <<-594836, -525862, -453239, -377469, -299080>>, <<355022, 431605, 505192, 575273, 641361>>, <<978475, 992256, 999151, 999112, 992138>>, <<702321, 640631, 574495, 504371, 430747>>,
   <<-219543, -299988, -378350, -454086, -526671>>, <<-939562, -964800, -983342, -995059, -999871>>, <<-795752, -742580, -684254, -621180, -553794>>, <<79668, 162364, 243933, 323809, 401438>>,
   <<881841, 918031, 947849, 971089, 987589>>, <<873253, 829664, 780317, 725554, 665755>>, <<61799, -21493, -104636, -187053, -268171>>, <<-806472, -852889, -893387, -927684, -955543>>,
   <<-933278, -900144, -860763, -815408, -764393>>, <<-202032, -119811, -36758, 46551, 129536>>, <<714960, 770675, 821042, 865710, 904370>>, <<974621, 952606, 923979, 888939, 847730>>,
   <<338219, 258714, 177413, 94881, 11691>>, <<-609140, -673038, -732266, -786410, -835097>>, <<-996460, -986003, -968703, -944680, -914101>>, <<-467639, -392442, -314520, -234416, -152685>>,
   <<491126, 561929, 628831, 691369, 749108>>, <<998352, 999664, 994037, 981512, 962175>>, <<587697, 518312, 445330, 369257, 290621>>, <<-363284, -439574, -512812, -582492, -648128>>,
   <<-980264, -993318, -999478, -998701, -990992>>, <<-695994, -633811, -567228, -496709, -422743>>, <<228169, 308419, 386527, 461954, 534174>>, <<942554, 967089, 984911, 995898, 999973>>,
   <<790359, 736622, 677772, 614218, 546401>>, <<-88489, -171093, -252508, -332172, -409530>>, <<-885981, -921505, -950634, -973165, -988942>>, <<-868907, -824691, -774752, -719435, -659125>>,
   <<-52964, 30340, 113434, 195740, 276687>>, <<811673, 857476, 897328, 930952, 958114>>, <<930061, 896252, 856223, 810251, 758655>>, <<193355, 111017, 27910, -55392, -138308>>,
   <<-721122, -776287, -826064, -870107, -908112>>, <<-972603, -949877, -920558, -884851, -843003>>, <<-329878, -250155, -168697, -86067, -2840>>, <<616135, 679558, 738264, 791846, 839933>>,
   <<995675, 984488, 966467, 941739, 910475>>, <<459796, 384284, 306105, 225801, 143930>>, <<-498818, -569229, -635689, -697738, -754944>>, <<-998822, -999396, -993034, -979780, -959726>>,
   <<-580514, -510723, -437388, -361018, -282142>>, <<371516, 447506, 520390, 589662, 654842>>, <<981974, 994299, 999724, 998209, 989767>>, <<689610, 626938, 559916, 489007, 414704>>,
   <<-236779, -316827, -394677, -469787, -541637>>, <<-945475, -969304, -986406, -996661, -999999>>, <<-784906, -730608, -671238, -607210, -538968>>, <<97301, 179806, 261062, 340507, 417588>>,
   <<890050, 924906, 953343, 975163, 990215>>, <<864490, 819651, 769124, 713258, 652442>>, <<44122, -39187, -122224, -204413, -285183>>, <<-816813, -861998, -901200, -934148, -960613>>,
   <<-926774, -892292, -851618, -805032, -752860>>, <<-184664, -102218, -19062, 64226, 147068>>, <<727225, 781835, 831019, 874435, 911782>>, <<970506, 947071, 917064, 880692, 838207>>,
   <<321508, 241574, 159964, 77244, -6012>>, <<-623083, -686025, -744206, -797222, -844704>>, <<-994815, -982897, -964158, -938726, -906780>>, <<-451919, -376098, -297667, -217171, -135167>>,
   <<506469, 576483, 642496, 704050, 760718>>, <<999211, 999048, 991951, 977970, 957201>>, <<573283, 503092, 429411, 352748, 273638>>, <<-379720, -455405, -527929, -596789, -661507>>,
   <<-983610, -995205, -999893, -997642, -988466>>, <<-683174, -620019, -552561, -481268, -406634>>, <<245368, 325209, 402793, 477581, 549055>>, <<948320, 971441, 987820, 997344, 999945>>,
   <<779390, 724534, 664650, 600153, 531490>>, <<-106108, -188507, -269597, -348817, -425615>>, <<-894051, -928236, -955978, -977086, -991412>>, <<-860008, -814550, -763438, -707027, -645710>>,
   <<-35278, 48029, 131003, 213068, 293655>>, <<821886, 866450, 905000, 937270, 963034>>, <<923412, 888260, 846944, 799749, 747004>>, <<175956, 93408, 10210, -73058, -155819>>,
   <<-733273, -787324, -835911, -878696, -915382>>, <<-968335, -944194, -913500, -876466, -833348>>, <<-313115, -232977, -151222, -68417, 14862>>, <<629981, 692438, 750088, 802533, 849408>>,
   <<993875, 981228, 961770, 935638, 903012>>, <<444004, 367881, 289205, 208521, 126390>>, <<-514082, -583694, -649255, -710309, -766434>>, <<-999524, -998624, -990793, -976085, -954603>>,
   <<-566009, -495424, -421401, -344453, -265115>>, <<387892, 463266, 535425, 603867, 668118>>, <<985166, 996031, 999983, 996994, 987086>>, <<676683, 613049, 545161, 473489, 398531>>,
   <<-253940, -333568, -410880, -485340, -556432>>, <<-951092, -973504, -989160, -997950, -999814>>, <<-773815, -718406, -658012, -593050, -523972>>, <<114904, 197191, 278109, 357097, 433607>>,
   <<897980, 931491, 958537, 978931, 992530>>, <<855457, 809382, 757690, 700739, 638925>>, <<26430, -56869, -139774, -221709, -302105>>, <<-826897, -870836, -908731, -940319, -965381>>,
   <<-919979, -884161, -842205, -794405, -741091>>, <<-167237, -84592, -1360, 81881, 164555>>, <<739261, 792749, 840735, 882886, 918909>>, <<966086, 941240, 909862, 872169, 828422>>,
   <<304695, 224359, 142465, 59583, -23713>>, <<-636831, -698797, -755914, -807783, -854047>>, <<-992859, -979483, -959310, -932478, -899175>>, <<-436057, -359637, -280721, -199857, -117606>>,
   <<521653, 590857, 655960, 716511, 772088>>, <<999757, 998120, 989555, 974122, 951928>>, <<558689, 487715, 413356, 336129, 256569>>, <<-396036, -471093, -542880, -610900, -674679>>,
   <<-986648, -996781, -999996, -996270, -985630>>, <<-670140, -606033, -537720, -465675, -390398>>, <<262491, 341898, 418932, 493059, 563764>>, <<953788, 975489, 990420, 998477, 999604>>,
   <<768177, 712220, 651320, 585899, 516412>>, <<-123693, -205862, -286601, -365352, -441567>>, <<-901841, -934675, -961023, -980701, -993572>>, <<-850841, -804153, -751885, -694398, -632092>>,
   <<-17582, 65703, 148532, 230330, 310530>>, <<831841, 875152, 912389, 943294, 967651>>, <<916473, 879990, 837399, 788997, 735118>>, <<158503, 75768, -7492, -90701, -173280>>,
   <<-745194, -798114, -845496, -887009, -922366>>, <<-963764, -938215, -906155, -867805, -823433>>, <<-296254, -215725, -133700, -50746, 32559>>, <<643630, 705101, 761678, 812968, 858617>>,
   <<991763, 977660, 956772, 929243, 895265>>, <<428073, 351363, 272214, 191176, 108811>>, <<-529186, -597976, -662617, -722658, -777684>>, <<-999914, -997539, -988241, -972084, -949180>>,
   <<-551327, -479970, -405282, -327781, -248005>>, <<404147, 478881, 550291, 617882, 681185>>, <<988050, 997450, 999928, 995467, 984096>>, <<663543, 598968, 530235, 457823, 382233>>,
   <<-271022, -350203, -426954, -500741, -571053>>, <<-956412, -977400, -991604, -998927, -999316>>, <<-762481, -705980, -644579, -578704, -508813>>, <<132471, 214514, 295069, 373576, 449490>>,
   <<905629, 937785, 963431, 982392, 994534>>, <<846156, 798859, 746019, 688000, 625207>>, <<8730, -74534, -157281, -238936, -318933>>, <<-836722, -879401, -915977, -946196, -969848>>,
   <<-912897, -875752, -832529, -783528, -729090>>, <<-149758, -66941, 16342, 99511, 181989>>, <<751066, 803415, 850188, 891060, 925748>>, <<961364, 935114, 902375, 863372, 818377>>,
   <<287787, 207073, 124922, 41903, -41406>>, <<-650380, -711351, -767384, -818092, -863121>>, <<-990591, -975762, -954161, -925937, -891287>>, <<-420058, -343063, -263687, -182481, -100009>>,
   <<536674, 605046, 669219, 728747, 783217>>, <<999990, 996878, 986848, 969968, 946356>>, <<543919, 472185, 397173, 319404, 239419>>, <<-412229, -486634, -557661, -624819, -687639>>,
   <<-989376, -998044, -999785, -994587, -982486>>, <<-656896, -591858, -522711, -449937, -374040>>, <<279531, 358480, 434940, 508382, 578296>>, <<958958, 979232, 992709, 999297, 998949>>,
   <<756723, 699682, 637785, 571462, 501172>>, <<-141240, -223152, -303516, -381773, -457380>>, <<-909348, -940822, -965766, -984008, -995420>>, <<-841406, -793505, -740096, -681551, -618276>>,
   <<120, 83357, 166015, 247520, 327308>>, <<841536, 883580, 919492, 949022, 971966>>, <<909247, 871444, 827592, 777997, 723002>>, <<141000, 58105, -25192, -108316, -190687>>,
   <<-756882, -808655, -854816, -895044, -929060>>, <<-958891, -931942, -898526, -858873, -813260>>, <<-279300, -198407, -116136, -33059, 50247>>, <<657077, 717543, 773028, 823149, 867556>>,
   <<989340, 973786, 951473, 922557, 887238>>, <<412008, 334735, 255138, 173770, 91197>>, <<-544123, -612071, -675771, -734781, -788691>>, <<-999990, -996142, -985379, -967778, -943460>>,
   <<-536472, -464365, -389035, -311005, -230817>>, <<420276, 494346, 564986, 631704, 694038>>, <<990623, 998557, 999561, 993627, 980797>>, <<650196, 584699, 515144, 442014, 365815>>,
   <<-288019, -366730, -442895, -515986, -585496>>, <<-961431, -980989, -993738, -999590, -998505>>, <<-750908, -693332, -630944, -564177, -493494>>, <<149996, 231771, 311937, 389938, 465233>>,
   <<912994, 943784, 968024, 985545, 996226>>, <<836589, 788086, 734114, 675046, 611294>>, <<-8972, -92175, -174738, -256087, -335660>>, <<-846285, -887691, -922936, -951776, -974010>>,
   <<-905528, -867069, -822592, -772406, -716860>>, <<-132233, -49268, 34039, 117109, 199367>>, <<762636, 813829, 859374, 898955, 932297>>, <<956340, 928695, 894605, 854305, 808076>>,
   <<270789, 189722, 107339, 24210, -59086>>, <<-663725, -723681, -778614, -828144, -871925>>, <<-988014, -971736, -948713, -919107, -883121>>, <<-403928, -326382, -246570, -165048, -82380>>,
   <<551527, 619045, 682268, 740755, 794101>>, <<999910, 995325, 983832, 965510, 940488>>, <<528980, 456507, 380865, 302580, 222195>>, <<-428292, -502022, -572268, -638542, -700384>>,
   <<-991795, -998994, -999261, -992591, -979033>>, <<-643446, -577496, -507538, -434058, -357564>>, <<296483, 374949, 450812, 523546, 592647>>, <<963827, 982667, 994687, 999804, 997981>>,
   <<745032, 686925, 624051, 556846, 485775>>, <<-158742, -240373, -320335, -398074, -473051>>, <<-916570, -946674, -970207, -987007, -996956>>, <<-831708, -782608, -728076, -668490, -604266>>,
   <<17822, 100984, 183445, 264633, 343984>>, <<850966, 891731, 926307, 954453, 975976>>, <<901736, 862624, 817526, 766753, 710660>>, <<123453, 40424, -42885, -125896, -208034>>,
   <<-768332, -818942, -863868, -902798, -935463>>, <<-953717, -925377, -890615, -849672, -802832>>, <<-262259, -181025, -98536, -15362, 67919>>, <<670318, 729760, 784137, 833071, 876224>>,
   <<986607, 969607, 945877, 915582, 878933>>, <<395814, 318001, 237982, 156310, 73554>>, <<-558890, -625974, -688713, -746673, -799450>>, <<-999753, -994432, -982209, -963169, -937444>>,
   <<-521449, -448614, -372667, -294132, -213557>>, <<436273, 509657, 579503, 645328, 706673>>, <<992887, 999351, 998880, 991476, 977191>>, <<636645, 570247, 499891, 426065, 349283>>,
   <<-304926, -383141, -458696, -531068, -599754>>, <<-966149, -984271, -995560, -999941, -997381>>, <<-739100, -680467, -617111, -549473, -478021>>, <<167474, 248954, 328707, 406177, 480829>>,
   <<920073, 949488, 972313, 988390, 997606>>, <<826760, 777066, 721979, 661880, 597188>>, <<-26672, -109787, -192140, -273159, -352282>>, <<-855583, -895703, -929606, -957058, -977867>>,
   <<-897875, -858114, -812397, -761042, -704405>>, <<-114666, -31580, 51725, 134671, 216683>>, <<773967, 823988, 868292, 906568, 938553>>, <<951017, 921985, 886554, 844970, 797522>>,
   <<253706, 172312, 89722, 6510, -76748>>, <<-676861, -735784, -789600, -837936, -880456>>, <<-985126, -967404, -942968, -911988, -874678>>, <<-387671, -309598, -229376, -147563, -64725>>,
   <<566207, 632851, 695103, 752530, 804735>>, <<999516, 993459, 980507, 960750, 934325>>, <<513875, 440685, 364437, 285660, 204900>>, <<-444221, -517253, -586695, -652065, -712909>>,
   <<-993902, -999632, -998423, -990285, -975274>>, <<-629795, -562954, -492206, -418042, -340977>>, <<313343, 391301, 466542, 538546, 606813>>, <<968394, 985795, 996354, 999997, 996701>>,
   <<733108, 673953, 610121, 542055, 470226>>, <<-176195, -257518, -337054, -414251, -488572>>, <<-923505, -952229, -974344, -989697, -998180>>, <<-821750, -771465, -715827, -655220, -590066>>,
   <<35518, 118579, 200818, 281662, 360551>>, <<860130, 899603, 932831, 959585, 979679>>, <<893942, 853535, 807203, 755270, 698094>>, <<105867, 22731, -60564, -143438, -225316>>,
   <<-779542, -828972, -872649, -910270, -941572>>, <<-948244, -918522, -882426, -840204, -792152>>, <<-245136, -163588, -80904, 2340, 85569>>, <<683349, 741748, 795000, 842733, 884618>>,
   <<983565, 965124, 939984, 908320, 870352>>, <<379496, 301169, 220751, 138802, 55889>>, <<-573481, -639680, -701440, -758331, -809959>>, <<-999203, -992410, -978731, -958258, -931135>>,
   <<-506262, -432723, -356182, -277168, -196230>>, <<452133, 524807, 593839, 658749, 719087>>, <<994839, 999832, 997886, 989014, 973279>>, <<622894, 555615, 484481, 409984, 332641>>,
   <<-321737, -399432, -474354, -545984, -613825>>, <<-970565, -987244, -997071, -999978, -995944>>, <<-727060, -667389, -603086, -534597, -462397>>, <<184900, 266060, 345373, 422290, 496275>>,
   <<926863, 954894, 976297, 990924, 998674>>, <<816673, 765802, 709617, 648507, 582896>>, <<-44364, -127365, -209482, -290145, -368794>>, <<-864613, -903434, -935985, -962040, -981417>>,
   <<-889941, -848890, -801948, -749440, -691730>>, <<-97062, -13882, 69395, 152191, 233930>>, <<785055, 833889, 876937, 913898, 944516>>, <<945396, 914986, 878226, 835371, 786718>>,
   <<236544, 154848, 72078, -11193, -94386>>, <<-689786, -747657, -800339, -847466, -888711>>, <<-981930, -962770, -936928, -904583, -865961>>, <<-371293, -292717, -212111, -130032, -47050>>,
   <<580709, 646458, 707720, 764070, 815118>>, <<998809, 991282, 976875, 955689, 927869>>, <<498608, 424726, 347896, 268651, 187542>>, <<-460011, -532322, -600938, -665384, -725211>>,
   <<-995699, -999956, -997273, -987668, -971209>>, <<-615946, -548235, -476720, -401896, -324282>>, <<330104, 407530, 482127, 553378, 620788>>, <<972658, 988613, 997708, 999878, 995108>>,
   <<720954, 660770, 596000, 527094, 454530>>, <<-193592, -274583, -353667, -430298, -503941>>, <<-930151, -957486, -978175, -992076, -999092>>, <<-811533, -760081, -703354, -641745, -575682>>,
   <<53203, 136138, 218127, 298603, 377006>>, <<869025, 907192, 939063, 964416, 983076>>, <<885868, 844178, 796628, 743549, 685310>>, <<88248, 5030, -78224, -160934, -242528>>,
   <<-790508, -838743, -881157, -917456, -947387>>, <<-942475, -911380, -873959, -830473, -781224>>, <<-227935, -146099, -63248, 20042, 103193>>, <<696166, 753504, 805613, 852130, 892734>>,
   <<980215, 960339, 933797, 900774, 861499>>, <<363059, 284241, 203451, 121249, 38206>>, <<-587893, -653187, -713947, -769752, -820214>>, <<-998339, -990078, -974946, -953047, -924533>>,
   <<-490917, -416697, -339585, -260116, -178841>>, <<467851, 539793, 607988, 671964, 731276>>, <<996479, 999999, 996579, 986243, 969061>>, <<608948, 540810, 468919, 393774, 315895>>,
   <<-338447, -415598, -489863, -560729, -627704>>, <<-974676, -989908, -998269, -999701, -994195>>, <<-714793, -654101, -588871, -519553, -446629>>, <<202267, 283082, 361932, 438270, 511566>>,
   <<933363, 960001, 979975, 993148, 999429>>, <<806329, 754299, 697034, 634931, 568421>>, <<-62041, -144902, -226758, -307040, -385191>>, <<-873371, -910881, -942070, -966720, -984660>>,
   <<-881728, -839401, -791247, -737603, -678838>>, <<-79429, 3821, 87044, 169663, 251104>>, <<795897, 843529, 885307, 920940, 950182>>, <<939478, 907700, 869622, 825509, 775667>>,
   <<219307, 137335, 54411, -28892, -111994>>, <<-702494, -759295, -810826, -856730, -896688>>, <<-978426, -957834, -930594, -896895, -856972>>, <<-354798, -275745, -194778, -112460, -29360>>,
   <<595029, 659862, 720115, 775371, 825245>>, <<997789, 988795, 972938, 950328, 921123>>, <<483185, 408633, 331245, 251558, 170125>>, <<-475657, -547224, -614993, -678494, -737286>>,
   <<-997183, -999966, -995810, -984742, -966840>>, <<-601904, -533345, -461084, -385623, -307486>>, <<346762, 423631, 497560, 568035, 634568>>, <<976616, 991122, 998749, 999444, 993203>>,
   <<708574, 647380, 581693, 511968, 438691>>, <<-210929, -291561, -370170, -446209, -519152>>, <<-936505, -962442, -981700, -994145, -999690>>, <<-801063, -748459, -690661, -628069, -561118>>,
   <<70872, 153654, 235369, 315451, 393343>>, <<877647, 914497, 945001, 968945, 986165>>, <<877517, 834556, 785803, 731596, 672311>>, <<70601, -12673, -95859, -178380, -259663>>,
   <<-801225, -848251, -889389, -924355, -952905>>, <<-936410, -903951, -865219, -820482, -770051>>, <<-210664, -128564, -45571, 37737, 120784>>, <<708765, 765024, 815974, 861261, 900570>>,
   <<976558, 955252, 927316, 892945, 852376>>, <<346508, 267225, 186088, 103659, 20511>>, <<-602121, -666488, -726230, -780931, -830212>>, <<-997162, -987435, -970855, -947537, -917642>>,
   <<-475418, -400540, -322882, -242982, -161397>>, <<483423, 554610, 621948, 684969, 743236>>, <<997807, 999853, 994960, 983162, 964540>>, <<594811, 525836, 453211, 377440, 299050>>,
   <<-355052, -431633, -505219, -575299, -641385>>, <<-978482, -992261, -999154, -999111, -992135>>, <<-702301, -640609, -574471, -504346, -430721>>, <<219572, 300015, 378377, 454112, 526696>>,
   <<939571, 964807, 983346, 995061, 999870>>, <<795732, 742559, 684231, 621155, 553768>>, <<-79699, -162395, -243963, -323839, -401466>>, <<-881856, -918044, -947860, -971097, -987595>>,
   <<-873239, -829648, -780299, -725534, -665734>>, <<-61770, 21522, 104665, 187081, 268199>>, <<806489, 852904, 893400, 927695, 955551>>, <<933266, 900130, 860746, 815389, 764373>>,
   <<202002, 119780, 36726, -46582, -129567>>, <<-714982, -770696, -821060, -865726, -904383>>, <<-974615, -952598, -923968, -888926, -847715>>, <<-338192, -258686, -177385, -94852, -11661>>,
   <<609163, 673060, 732285, 786428, 835113>>, <<996456, 985997, 968695, 944670, 914088>>, <<467611, 392413, 314491, 234386, 152654>>, <<-491153, -561954, -628855, -691392, -749129>>,
   <<-998355, -999664, -994035, -981507, -962167>>, <<-587674, -518287, -445304, -369230, -290594>>, <<363311, 439600, 512837, 582515, 648150>>, <<980269, 993320, 999478, 998698, 990987>>,
   <<695971, 633786, 567203, 496682, 422715>>, <<-228200, -308448, -386556, -461981, -534200>>, <<-942565, -967097, -984918, -995902, -999974>>, <<-790341, -736602, -677751, -614195, -546377>>,
   <<88518, 171121, 252537, 332199, 409556>>, <<885994, 921516, 950642, 973171, 988945>>, <<868891, 824673, 774732, 719413, 659102>>, <<52933, -30371, -113464, -195770, -276717>>,
   <<-811692, -857493, -897342, -930964, -958124>>, <<-930051, -896240, -856208, -810234, -758637>>, <<-193326, -110989, -27881, 55421, 138337>>, <<721142, 776305, 826080, 870121, 908124>>,
   <<972595, 949866, 920546, 884836, 842985>>, <<329848, 250125, 168666, 86036, 2809>>, <<-616160, -679581, -738285, -791865, -839950>>, <<-995673, -984483, -966461, -941730, -910464>>,
   <<-459770, -384257, -306077, -225773, -143902>>, <<498843, 569253, 635712, 697758, 754962>>, <<998822, 999394, 993030, 979773, 959717>>, <<580488, 510696, 437360, 360989, 282112>>,
   <<-371545, -447534, -520417, -589688, -654866>>, <<-981981, -994304, -999725, -998209, -989764>>, <<-689589, -626916, -559892, -488981, -414677>>, <<236807, 316855, 394703, 469812, 541661>>,
   <<945484, 969310, 986410, 996662, 999998>>, <<784887, 730586, 671215, 607185, 538941>>, <<-97332, -179836, -261092, -340536, -417616>>, <<-890065, -924918, -953353, -975170, -990220>>,
   <<-864476, -819635, -769106, -713238, -652420>>, <<-44093, 39216, 122253, 204441, 285211>>, <<816829, 862012, 901212, 934158, 960620>>, <<926761, 892277, 851601, 805013, 752839>>,
   <<184633, 102187, 19031, -64257, -147099>>, <<-727246, -781855, -831036, -874451, -911796>>, <<-970499, -947063, -917053, -880679, -838192>>, <<-321480, -241546, -159936, -77215, 6041>>,
   <<623106, 686046, 744225, 797239, 844719>>, <<994811, 982891, 964149, 938715, 906766>>, <<451891, 376069, 297638, 217140, 135136>>, <<-506496, -576509, -642520, -704073, -760738>>,
   <<-999213, -999048, -991949, -977965, -957194>>, <<-573259, -503067, -429384, -352721, -273610>>, <<379747, 455431, 527954, 596812, 661529>>, <<983614, 995207, 999893, 997639, 988461>>,
   <<683151, 619995, 552535, 481240, 406606>>, <<-245399, -325239, -402822, -477609, -549081>>, <<-948330, -971449, -987826, -997347, -999946>>, <<-779372, -724514, -664628, -600129, -531465>>,
   <<106137, 188535, 269625, 348844, 425641>>, <<894064, 928246, 955986, 977091, 991415>>, <<859992, 814531, 763417, 707005, 645686>>, <<35247, -48060, -131034, -213099, -293684>>,
   <<-821904, -866466, -905014, -937281, -963043>>, <<-923401, -888247, -846929, -799732, -746985>>, <<-175928, -93379, -10181, 73087, 155847>>, <<733292, 787341, 835926, 878709, 915394>>,
   <<968326, 944183, 913487, 876450, 833331>>, <<313085, 232946, 151191, 68386, -14893>>, <<-630006, -692460, -750109, -802552, -849425>>, <<-993873, -981223, -961763, -935628, -903000>>,
   <<-443978, -367854, -289177, -208493, -126361>>, <<514107, 583718, 649277, 710330, 766452>>, <<999524, 998621, 990788, 976078, 954593>>, <<565983, 495397, 421373, 344424, 265085>>,
   <<-387921, -463294, -535451, -603892, -668142>>, <<-985173, -996035, -999984, -996993, -987082>>, <<-676661, -613026, -545137, -473464, -398504>>, <<253969, 333595, 410906, 485366, 556456>>,
   <<951101, 973510, 989163, 997951, 999813>>, <<773795, 718384, 657988, 593025, 523946>>, <<-114935, -197222, -278139, -357126, -433635>>, <<-897995, -931503, -958547, -978938, -992534>>,
   <<-855442, -809366, -757671, -700719, -638903>>, <<-26401, 56899, 139803, 221737, 302133>>, <<826913, 870850, 908743, 940329, 965388>>, <<919966, 884145, 842188, 794386, 741070>>,
   <<167207, 84561, 1329, -81912, -164585>>, <<-739283, -792769, -840752, -882901, -918922>>, <<-966079, -941231, -909850, -872155, -828406>>, <<-304668, -224331, -142437, -59554, 23742>>,
   <<636854, 698818, 755932, 807800, 854061>>, <<992854, 979476, 959300, 932466, 899160>>, <<436029, 359608, 280691, 199827, 117575>>, <<-521680, -590883, -655984, -716533, -772109>>,
   <<-999759, -998119, -989551, -974116, -951920>>, <<-558665, -487690, -413330, -336102, -256541>>, <<396063, 471119, 542905, 610922, 674700>>, <<986652, 996782, 999995, 996267, 985624>>,
   <<670117, 606008, 537694, 465648, 390370>>, <<-262521, -341927, -418961, -493086, -563790>>, <<-953798, -975497, -990425, -998479, -999604>>, <<-768159, -712200, -651298, -585876, -516387>>,
   <<123722, 205890, 286629, 365379, 441593>>, <<901853, 934685, 961030, 980705, 993574>>, <<850824, 804134, 751864, 694375, 632067>>, <<17551, -65734, -148563, -230361, -310560>>,
   <<-831859, -875168, -912402, -943305, -967660>>, <<-916462, -879976, -837384, -788979, -735099>>, <<-158474, -75739, 7521, 90730, 173309>>, <<745213, 798132, 845511, 887022, 922376>>,
   <<963755, 938204, 906141, 867789, 823415>>, <<296224, 215695, 133669, 50715, -32591>>, <<-643654, -705123, -761698, -812987, -858633>>, <<-991760, -977655, -956764, -929233, -895253>>,
   <<-428047, -351336, -272186, -191147, -108782>>, <<529210, 597999, 662638, 722678, 777702>>, <<999913, 997536, 988235, 972076, 949170>>, <<551300, 479942, 405253, 327751, 247975>>,
   <<-404176, -478909, -550318, -617907, -681208>>, <<-988055, -997454, -999929, -995465, -984091>>, <<-663522, -598945, -530211, -457797, -382206>>, <<271050, 350231, 426980, 500766, 571077>>,
   <<956419, 977405, 991607, 998927, 999314>>, <<762460, 705957, 644555, 578679, 508786>>, <<-132502, -214545, -295099, -373605, -449518>>, <<-905643, -937796, -963441, -982398, -994538>>,
   <<-846141, -798842, -746000, -687980, -625185>>, <<-8701, 74563, 157309, 238964, 318960>>, <<836738, 879415, 915988, 946205, 969854>>, <<912883, 875736, 832512, 783509, 729068>>,
   <<149728, 66909, -16373, -99542, -182020>>, <<-751087, -803434, -850205, -891075, -925760>>, <<-961357, -935105, -902363, -863358, -818361>>, <<-287759, -207045, -124893, -41874, 41435>>,
   <<650402, 711371, 767402, 818108, 863135>>, <<990586, 975755, 954151, 925925, 891273>>, <<420030, 343034, 263657, 182450, 99978>>, <<-536701, -605071, -669242, -728769, -783237>>,
   <<-999991, -996877, -986844, -969962, -946348>>, <<-543895, -472159, -397146, -319377, -239391>>, <<412255, 486659, 557685, 624841, 687660>>, <<989380, 998045, 999783, 994583, 982479>>,
   <<656872, 591832, 522684, 449909, 374011>>, <<-279561, -358509, -434968, -508409, -578322>>, <<-958968, -979239, -992714, -999299, -998949>>, <<-756704, -699662, -637763, -571438, -501147>>,
   <<141269, 223181, 303544, 381800, 457406>>, <<909360, 940831, 965773, 984012, 995422>>, <<841389, 793486, 740075, 681528, 618251>>, <<-151, -83388, -166045, -247550, -327338>>,
   <<-841553, -883595, -919505, -949033, -971974>>, <<-909235, -871430, -827576, -777979, -722982>>, <<-140971, -58076, 25222, 108344, 190715>>, <<756901, 808672, 854830, 895056, 929070>>,
   <<958881, 931930, 898512, 858857, 813241>>, <<279270, 198376, 116105, 33028, -50278>>, <<-657101, -717565, -773048, -823167, -867572>>, <<-989337, -973780, -951465, -922547, -887225>>,
   <<-411982, -334707, -255110, -173742, -91168>>, <<544147, 612094, 675792, 734800, 788708>>, <<999989, 996138, 985373, 967770, 943449>>, <<536445, 464337, 389006, 310976, 230787>>,
   <<-420304, -494374, -565012, -631728, -694061>>, <<-990628, -998560, -999561, -993625, -980792>>, <<-650174, -584675, -515119, -441987, -365788>>, <<288047, 366757, 442921, 516010, 585519>>,
   <<961438, 980994, 993741, 999590, 998502>>, <<750887, 693309, 630920, 564151, 493467>>, <<-150027, -231801, -311966, -389967, -465260>>, <<-913007, -943795, -968032, -985551, -996230>>,
   <<-836574, -788069, -734094, -675025, -611271>>, <<9002, 92204, 174766, 256116, 335687>>, <<846300, 887704, 922947, 951784, 974016>>, <<905514, 867053, 822574, 772386, 716838>>,
   <<132202, 49237, -34070, -117140, -199398>>, <<-762656, -813848, -859391, -898969, -932308>>, <<-956332, -928685, -894592, -854290, -808060>>, <<-270761, -189694, -107310, -24181, 59115>>,
   <<663746, 723700, 778632, 828159, 871939>>, <<988008, 971727, 948703, 919094, 883106>>, <<403899, 326352, 246540, 165017, 82349>>, <<-551553, -619070, -682291, -740776, -794120>>,
   <<-999910, -995323, -983827, -965504, -940479>>, <<-528955, -456481, -380838, -302552, -222166>>, <<428318, 502047, 572292, 638564, 700405>>, <<991798, 998995, 999258, 992587, 979026>>,
   <<643422, 577471, 507511, 434029, 357535>>, <<-296513, -374978, -450840, -523573, -592672>>, <<-963836, -982674, -994691, -999805, -997980>>, <<-745013, -686905, -624029, -556822, -485750>>,
   <<158771, 240401, 320363, 398101, 473076>>, <<916581, 946683, 970214, 987011, 996958>>, <<831691, 782588, 728054, 668467, 604241>>, <<-17853, -101015, -183475, -264663, -344013>>,
   <<-850983, -891746, -926319, -954463, -975983>>, <<-901724, -862610, -817510, -766735, -710639>>, <<-123424, -40395, 42914, 125925, 208063>>, <<768351, 818958, 863882, 902810, 935472>>,
   <<953707, 925365, 890601, 849655, 802813>>, <<262229, 180995, 98505, 15331, -67950>>, <<-670342, -729782, -784157, -833089, -876240>>, <<-986604, -969601, -945868, -915571, -878919>>,
   <<-395787, -317974, -237953, -156282, -73525>>, <<558914, 625996, 688734, 746692, 799467>>, <<999751, 994428, 982202, 963160, 937433>>, <<521422, 448586, 372638, 294103, 213526>>,
   <<-436301, -509683, -579529, -645352, -706696>>, <<-992891, -999353, -998880, -991473, -977186>>, <<-636622, -570223, -499866, -426039, -349256>>, <<304954, 383168, 458722, 531093, 599777>>,
   <<966156, 984275, 995562, 999940, 997378>>, <<739079, 680444, 617087, 549447, 477993>>, <<-167505, -248984, -328736, -406206, -480857>>, <<-920086, -949498, -972321, -988395, -997610>>,
   <<-826744, -777048, -721959, -661859, -597165>>, <<26701, 109816, 192168, 273187, 352310>>, <<855598, 895715, 929616, 957065, 977872>>, <<897861, 858098, 812379, 761022, 704383>>,
   <<114635, 31549, -51756, -134702, -216713>>, <<-773987, -824007, -868308, -906582, -938565>>, <<-951009, -921974, -886541, -844955, -797505>>, <<-253678, -172284, -89693, -6481, 76777>>,
   <<676882, 735803, 789618, 837952, 880470>>, <<985120, 967396, 942957, 911975, 874662>>, <<387642, 309568, 229346, 147532, 64694>>, <<-566232, -632875, -695125, -752551, -804754>>,
   <<-999516, -993457, -980502, -960743, -934315>>, <<-513850, -440659, -364410, -285632, -204872>>, <<444247, 517278, 586718, 652087, 712929>>, <<993905, 999632, 998420, 990280, 975266>>,
   <<629770, 562928, 492179, 418014, 340947>>, <<-313372, -391329, -466570, -538573, -606838>>, <<-968403, -985801, -996357, -999998, -996699>>, <<-733088, -673932, -610098, -542031, -470201>>,
   <<176223, 257546, 337081, 414277, 488598>>, <<923516, 952237, 974350, 989700, 998181>>, <<821731, 771445, 715805, 655197, 590041>>, <<-35549, -118610, -200848, -281692, -360581>>,
   <<-860147, -899617, -932843, -959595, -979687>>, <<-893930, -853520, -807187, -755251, -698074>>, <<-105838, -22701, 60593, 143466, 225344>>, <<779560, 828988, 872663, 910281, 941581>>,
   <<948234, 918510, 882410, 840187, 792132>>, <<245105, 163557, 80873, -2372, -85600>>, <<-683372, -741770, -795019, -842750, -884633>>, <<-983561, -965117, -939975, -908309, -870338>>,
   <<-379469, -301141, -220723, -138773, -55860>>, <<573505, 639702, 701460, 758350, 809976>>, <<999200, 992406, 978724, 958248, 931123>>, <<506235, 432695, 356152, 277138, 196199>>,
   <<-452161, -524834, -593864, -658773, -719109>>, <<-994843, -999833, -997885, -989011, -973273>>, <<-622871, -555591, -484456, -409957, -332614>>, <<321765, 399458, 474380, 546009, 613848>>,
   <<970571, 987248, 997072, 999976, 995941>>, <<727039, 667365, 603060, 534570, 462369>>, <<-184930, -266090, -345403, -422318, -496302>>, <<-926876, -954904, -976305, -990929, -998677>>,
   <<-816656, -765784, -709597, -648485, -582873>>, <<44393, 127394, 209510, 290173, 368821>>, <<864627, 903446, 935994, 962047, 981422>>, <<889926, 848874, 801929, 749419, 691708>>,
   <<97031, 13851, -69426, -152222, -233960>>, <<-785074, -833907, -876952, -913911, -944527>>, <<-945387, -914975, -878212, -835355, -786700>>, <<-236515, -154819, -72049, 11222, 94415>>,
   <<689807, 747676, 800356, 847481, 888724>>, <<981923, 962761, 936916, 904570, 865945>>, <<371264, 292688, 212080, 130001, 47019>>, <<-580734, -646482, -707742, -764091, -815136>>,
   <<-998808, -991279, -976870, -955681, -927859>>, <<-498583, -424700, -347868, -268623, -187513>>, <<460037, 532346, 600961, 665405, 725231>>, <<995700, 999955, 997270, 987663, 971201>>,
   <<615921, 548209, 476692, 401867, 324253>>, <<-330134, -407558, -482154, -553404, -620812>>, <<-972666, -988619, -997711, -999878, -995106>>, <<-720934, -660748, -595977, -527070, -454504>>,
   <<193621, 274611, 353695, 430324, 503966>>, <<930161, 957493, 978181, 992079, 999092>>, <<811515, 760061, 703332, 641721, 575656>>, <<-53235, -136169, -218158, -298633, -377035>>,
   <<-869041, -907206, -939074, -964425, -983083>>, <<-885855, -844162, -796611, -743530, -685289>>, <<-88219, -5001, 78253, 160963, 242556>>, <<790525, 838758, 881171, 917467, 947396>>,
   <<942464, 911366, 873944, 830456, 781204>>, <<227905, 146068, 63217, -20073, -103224>>, <<-696189, -753525, -805632, -852147, -892748>>, <<-980210, -960331, -933787, -900762, -861485>>,
   <<-363031, -284213, -203423, -121220, -38177>>, <<587916, 653208, 713967, 769770, 820230>>, <<998336, 990073, 974938, 953037, 924521>>, <<490890, 416669, 339555, 260086, 178811>>,
   <<-467879, -539819, -608013, -671988, -731298>>, <<-996482, -1000000, -996578, -986239, -969055>>, <<-608925, -540786, -468894, -393747, -315868>>, <<338475, 415624, 489889, 560753, 627726>>,
   <<974682, 989911, 998269, 999699, 994191>>, <<714771, 654078, 588845, 519526, 446601>>, <<-202298, -283112, -361961, -438298, -511593>>, <<-933375, -960010, -979982, -993153, -999431>>,
   <<-806312, -754280, -697013, -634908, -568397>>, <<62070, 144931, 226786, 307068, 385217>>, <<873385, 910893, 942079, 966727, 984665>>, <<881713, 839383, 791228, 737581, 678815>>,
   <<79398, -3852, -87075, -169693, -251134>>, <<-795916, -843546, -885322, -920953, -950193>>, <<-939469, -907688, -869609, -825493, -775649>>, <<-219279, -137307, -54382, 28921, 112023>>,
   <<702515, 759314, 810843, 856745, 896700>>, <<978419, 957824, 930582, 896881, 856955>>, <<354769, 275715, 194748, 112429, 29329>>, <<-595054, -659886, -720137, -775391, -825263>>,
   <<-997788, -988791, -972932, -950320, -921112>>, <<-483160, -408607, -331218, -251530, -170096>>, <<475682, 547248, 615016, 678515, 737305>>, <<997184, 999965, 995806, 984736, 966831>>,
   <<601879, 533318, 461056, 385594, 307456>>, <<-346791, -423659, -497587, -568061, -634593>>, <<-976624, -991127, -998752, -999444, -993201>>, <<-708553, -647358, -581669, -511944, -438665>>,
   <<210957, 291589, 370197, 446235, 519177>>, <<936514, 962450, 981705, 994147, 999689>>, <<801044, 748438, 690638, 628044, 561092>>, <<-70903, -153684, -235399, -315480, -393372>>,
   <<-877663, -914511, -945012, -968954, -986171>>, <<-877504, -834540, -785785, -731576, -672290>>, <<-70572, 12702, 95888, 178409, 259691>>, <<801242, 848266, 889402, 924365, 952913>>,
   <<936398, 903937, 865203, 820464, 770031>>, <<210633, 128533, 45540, -37768, -120815>>, <<-708787, -765045, -815993, -861277, -900584>>, <<-976552, -955244, -927306, -892932, -852361>>,
   <<-346480, -267197, -186059, -103630, -20482>>, <<602144, 666510, 726249, 780949, 830228>>, <<997159, 987430, 970847, 947526, 917629>>, <<475391, 400511, 322852, 242952, 161366>>,
   <<-483450, -554636, -621972, -684992, -743257>>, <<-997810, -999854, -994958, -983158, -964533>>, <<-594788, -525811, -453185, -377414, -299023>>, <<355079, 431659, 505244, 575322, 641408>>,
   <<978487, 992264, 999154, 999109, 992130>>, <<702279, 640585, 574445, 504319, 430692>>, <<-219602, -300045, -378406, -454140, -526722>>, <<-939582, -964816, -983353, -995065, -999872>>,
   <<-795715, -742540, -684210, -621133, -553744>>, <<79728, 162424, 243992, 323866, 401493>>, <<881869, 918055, 947868, 971103, 987599>>, <<873223, 829630, 780279, 725512, 665710>>,
   <<61739, -21553, -104696, -187112, -268230>>, <<-806508, -852921, -893414, -927707, -955561>>, <<-933256, -900118, -860732, -815373, -764354>>, <<-201973, -119751, -36697, 46611, 129596>>,
   <<715002, 770714, 821076, 865740, 904395>>, <<974608, 952587, 923956, 888911, 847698>>, <<338163, 258656, 177354, 94821, 11630>>, <<-609188, -673083, -732307, -786448, -835130>>,
   <<-996454, -985993, -968688, -944661, -914077>>, <<-467586, -392386, -314463, -234357, -152625>>, <<491179, 561978, 628878, 691412, 749148>>, <<998355, 999662, 994031, 981500, 962158>>,
   <<587648, 518261, 445276, 369201, 290564>>, <<-363340, -439628, -512864, -582541, -648174>>, <<-980276, -993325, -999480, -998698, -990984>>, <<-695951, -633764, -567179, -496657, -422688>>,
   <<228228, 308476, 386583, 462007, 534225>>, <<942574, 967104, 984922, 995904, 999974>>, <<790322, 736581, 677727, 614170, 546351>>, <<-88549, -171152, -252567, -332229, -409585>>,
   <<-886009, -921529, -950653, -973179, -988950>>, <<-868877, -824657, -774713, -719393, -659080>>, <<-52903, 30400, 113493, 195799, 276745>>, <<811709, 857507, 897355, 930974, 958132>>,
   <<930039, 896225, 856192, 810215, 758616>>, <<193295, 110958, 27850, -55452, -138368>>, <<-721164, -776325, -826098, -870137, -908138>>, <<-972589, -949858, -920535, -884823, -842970>>,
   <<-329821, -250097, -168637, -86007, -2780>>, <<616182, 679602, 738304, 791883, 839965>>, <<995670, 984477, 966452, 941719, 910450>>, <<459742, 384228, 306047, 225742, 143871>>,
   <<-498870, -569279, -635736, -697781, -754983>>, <<-998825, -999394, -993027, -979768, -959710>>, <<-580464, -510671, -437334, -360962, -282084>>, <<371572, 447560, 520441, 589711, 654888>>,
   <<981986, 994306, 999725, 998206, 989758>>, <<689566, 626892, 559866, 488954, 414649>>, <<-236838, -316885, -394732, -469840, -541687>>, <<-945495, -969319, -986415, -996666, -999999>>,
   <<-784869, -730566, -671193, -607162, -538917>>, <<97361, 179865, 261120, 340563, 417643>>, <<890078, 924929, 953361, 975176, 990223>>, <<864460, 819617, 769085, 713216, 652396>>,
   <<44061, -39247, -122284, -204472, -285241>>, <<-816847, -862028, -901227, -934170, -960629>>, <<-926751, -892265, -851586, -804997, -752820>>, <<-184604, -102158, -19002, 64286, 147128>>,
   <<727266, 781872, 831052, 874464, 911807>>, <<970491, 947052, 917040, 880663, 838174>>, <<321451, 241516, 159905, 77184, -6072>>, <<-623131, -686069, -744246, -797258, -844737>>,
   <<-994809, -982886, -964142, -938705, -906754>>, <<-451865, -376042, -297610, -217112, -135107>>, <<506521, 576532, 642543, 704093, 760757>>, <<999214, 999046, 991944, 977958, 957184>>,
   <<573233, 503040, 429356, 352692, 273580>>, <<-379776, -455458, -527980, -596837, -661552>>, <<-983621, -995211, -999894, -997638, -988457>>, <<-683130, -619972, -552511, -481215, -406579>>,
   <<245427, 325266, 402848, 477634, 549105>>, <<948339, 971456, 987830, 997348, 999944>>, <<779352, 724493, 664605, 600104, 531439>>, <<-106168, -188566, -269655, -348873, -425670>>,
   <<-894078, -928258, -955996, -977099, -991420>>, <<-859978, -814515, -763399, -706985, -645664>>, <<-35218, 48089, 131063, 213127, 293712>>, <<821920, 866480, 905026, 937291, 963050>>,
   <<923389, 888232, 846912, 799713, 746964>>, <<175897, 93348, 10150, -73118, -155878>>, <<-733314, -787361, -835944, -878725, -915407>>, <<-968320, -944174, -913475, -876437, -833315>>,
   <<-313058, -232918, -151162, -68357, 14922>>, <<630028, 692481, 750128, 802569, 849440>>, <<993868, 981216, 961754, 935616, 902986>>, <<443950, 367825, 289147, 208462, 126330>>,
   <<-514134, -583743, -649301, -710352, -766473>>, <<-999526, -998621, -990785, -976072, -954585>>, <<-565959, -495372, -421346, -344397, -265057>>, <<387948, 463319, 535475, 603915, 668163>>,
   <<985177, 996036, 999983, 996989, 987076>>, <<676638, 613002, 545110, 473436, 398476>>, <<-253999, -333625, -410935, -485393, -556482>>, <<-951111, -973518, -989169, -997954, -999813>>,
   <<-773777, -718364, -657966, -593001, -523921>>, <<114964, 197250, 278167, 357154, 433661>>, <<898007, 931513, 958554, 978943, 992537>>, <<855426, 809347, 757651, 700696, 638878>>,
   <<26370, -56930, -139834, -221768, -302163>>, <<-826931, -870866, -908756, -940340, -965397>>, <<-919956, -884132, -842173, -794368, -741050>>, <<-167178, -84532, -1300, 81941, 164614>>,
   <<739302, 792786, 840768, 882914, 918933>>, <<966071, 941220, 909837, 872139, 828388>>, <<304638, 224300, 142406, 59523, -23773>>, <<-636878, -698841, -755953, -807819, -854078>>,
   <<-992852, -979471, -959293, -932456, -899148>>, <<-436002, -359581, -280663, -199798, -117546>>, <<521705, 590906, 656006, 716553, 772127>>, <<999759, 998116, 989546, 974108, 951909>>,
   <<558639, 487662, 413302, 336072, 256511>>, <<-396092, -471146, -542931, -610947, -674723>>, <<-986658, -996786, -999996, -996265, -985620>>, <<-670095, -605985, -537669, -465622, -390343>>,
   <<262549, 341955, 418987, 493112, 563814>>, <<953807, 975503, 990428, 998480, 999602>>, <<768138, 712178, 651274, 585850, 516360>>, <<-123753, -205921, -286659, -365408, -441621>>,
   <<-901867, -934697, -961040, -980712, -993578>>, <<-850809, -804118, -751845, -694355, -632045>>, <<-17522, 65763, 148592, 230389, 310587>>, <<831875, 875181, 912414, 943314, 967667>>,
   <<916449, 879961, 837366, 788960, 735077>>, <<158444, 75708, -7552, -90761, -173339>>, <<-745234, -798151, -845528, -887037, -922389>>, <<-963748, -938194, -906129, -867775, -823399>>,
   <<-296196, -215667, -133640, -50686, 32620>>, <<643676, 705143, 761717, 813003, 858647>>, <<991755, 977647, 956754, 929221, 895238>>, <<428019, 351306, 272156, 191116, 108751>>,
   <<-529237, -598024, -662662, -722700, -777722>>, <<-999915, -997535, -988232, -972070, -949161>>, <<-551276, -479917, -405226, -327724, -247946>>, <<404203, 478934, 550342, 617930, 681229>>,
   <<988059, 997455, 999928, 995461, 984085>>, <<663498, 598920, 530184, 457769, 382177>>, <<-271080, -350260, -427009, -500794, -571103>>, <<-956429, -977413, -991612, -998930, -999314>>,
   <<-762442, -705937, -644533, -578655, -508761>>, <<132531, 214573, 295127, 373632, 449544>>, <<905655, 937805, 963448, 982403, 994540>>, <<846124, 798823, 745979, 687957, 625160>>,
   <<8670, -74594, -157340, -238994, -318990>>, <<-836755, -879430, -916002, -946215, -969862>>, <<-912872, -875723, -832496, -783491, -729048>>, <<-149699, -66880, 16402, 99571, 182049>>,
   <<751106, 803451, 850220, 891087, 925771>>, <<961347, 935093, 902349, 863342, 818343>>, <<287730, 207014, 124862, 41843, -41466>>, <<-650426, -711393, -767423, -818126, -863152>>,
   <<-990583, -975749, -954143, -925915, -891260>>, <<-420003, -343007, -263629, -182422, -99949>>, <<536725, 605094, 669264, 728788, 783255>>, <<999990, 996874, 986838, 969953, 946337>>,
   <<543869, 472132, 397118, 319347, 239361>>, <<-412284, -486687, -557711, -624866, -687683>>, <<-989385, -998048, -999784, -994580, -982475>>, <<-656851, -591809, -522660, -449883, -373984>>,
   <<279589, 358536, 434995, 508434, 578345>>, <<958975, 979244, 992716, 999299, 998946>>, <<756684, 699639, 637739, 571412, 501120>>, <<-141300, -223211, -303573, -381829, -457434>>,
   <<-909373, -940843, -965782, -984019, -995426>>, <<-841374, -793468, -740056, -681507, -618228>>, <<180, 83417, 166074, 247579, 327365>>, <<841568, 883608, 919516, 949041, 971980>>,
   <<909222, 871414, 827558, 777959, 722960>>, <<140940, 58045, -25253, -108375, -190746>>, <<-756921, -808690, -854847, -895071, -929082>>, <<-958873, -931920, -898499, -858842, -813225>>,
   <<-279242, -198347, -116076, -32999, 50307>>, <<657122, 717585, 773067, 823183, 867586>>, <<989331, 973772, 951455, 922534, 887210>>, <<411953, 334678, 255079, 173711, 91137>>,
   <<-544173, -612119, -675815, -734822, -788728>>, <<-999990, -996136, -985369, -967763, -943440>>, <<-536421, -464311, -388980, -310948, -230758>>, <<420331, 494399, 565036, 631751, 694081>>,
   <<990632, 998561, 999559, 993620, 980785>>, <<650150, 584650, 515092, 441959, 365759>>, <<-288077, -366786, -442949, -516037, -585544>>, <<-961448, -981001, -993745, -999592, -998502>>,
   <<-750868, -693289, -630897, -564127, -493442>>, <<150056, 231829, 311994, 389993, 465286>>, <<913019, 943804, 968039, 985555, 996231>>, <<836556, 788049, 734073, 675002, 611246>>,
   <<-9033, -92235, -174797, -256146, -335717>>, <<-846317, -887719, -922960, -951794, -974023>>, <<-905502, -867039, -822558, -772368, -716818>>, <<-132173, -49208, 34099, 117169, 199426>>,
   <<762675, 813864, 859405, 898981, 932318>>, <<956323, 928673, 894578, 854274, 808041>>, <<270731, 189663, 107279, 24150, -59146>>, <<-663770, -723722, -778652, -828177, -871955>>,
   <<-988004, -971721, -948694, -919083, -883093>>, <<-403873, -326325, -246512, -164988, -82320>>, <<551577, 619093, 682312, 740795, 794137>>, <<999909, 995319, 983821, 965495, 940468>>,
   <<528929, 456453, 380809, 302522, 222136>>, <<-428347, -502074, -572317, -638588, -700427>>, <<-991802, -998997, -999258, -992584, -979021>>, <<-643400, -577447, -507486, -434003, -357508>>,
   <<296541, 375005, 450866, 523598, 592696>>, <<963843, 982678, 994693, 999805, 997977>>, <<744992, 686882, 624004, 556796, 485723>>, <<-158802, -240431, -320392, -398130, -473104>>,
   <<-916594, -946693, -970222, -987017, -996961>>, <<-831675, -782570, -728034, -668446, -604218>>, <<17882, 101044, 183504, 264691, 344040>>, <<850998, 891758, 926329, 954471, 975989>>,
   <<901710, 862594, 817491, 766715, 710617>>, <<123393, 40364, -42945, -125956, -208093>>, <<-768371, -818977, -863898, -902824, -935484>>, <<-953699, -925354, -890588, -849640, -802796>>,
   <<-262201, -180966, -98476, -15301, 67979>>, <<670363, 729801, 784174, 833105, 876253>>, <<986598, 969592, 945857, 915558, 878904>>, <<395759, 317944, 237923, 156251, 73494>>,
   <<-558940, -626021, -688757, -746713, -799487>>, <<-999752, -994425, -982198, -963153, -937423>>, <<-521397, -448561, -372611, -294075, -213498>>, <<436327, 509708, 579552, 645374, 706716>>,
   <<992894, 999353, 998877, 991468, 977178>>, <<636598, 570197, 499839, 426011, 349227>>, <<-304983, -383196, -458750, -531119, -599803>>, <<-966165, -984281, -995566, -999941, -997377>>,
   <<-739059, -680423, -617064, -549422, -477968>>, <<167534, 249013, 328763, 406233, 480882>>, <<920096, 949507, 972327, 988399, 997611>>, <<826726, 777028, 721937, 661835, 597140>>,
   <<-26732, -109847, -192199, -273217, -352339>>, <<-855614, -895730, -929628, -957075, -977879>>, <<-897849, -858083, -812362, -761003, -704363>>, <<-114606, -31519, 51785, 134731, 216741>>,
   <<774005, 824023, 868321, 906594, 938574>>, <<950998, 921962, 886526, 844938, 797485>>, <<253648, 172253, 89662, 6450, -76808>>, <<-676906, -735825, -789637, -837969, -880485>>,
   <<-985116, -967389, -942948, -911963, -874649>>, <<-387615, -309541, -229318, -147503, -64665>>, <<566256, 632897, 695146, 752570, 804771>>, <<999514, 993452, 980495, 960733, 934304>>,
   <<513823, 440631, 364381, 285602, 204841>>, <<-444275, -517305, -586744, -652111, -712952>>, <<-993909, -999633, -998420, -990277, -975261>>, <<-629748, -562904, -492154, -417987, -340920>>,
   <<313400, 391356, 466596, 538597, 606860>>, <<968409, 985805, 996359, 999997, 996696>>, <<733067, 673909, 610074, 542004, 470173>>, <<-176254, -257576, -337111, -414306, -488625>>,
   <<-923528, -952247, -974358, -989705, -998184>>, <<-821715, -771427, -715785, -655175, -590018>>, <<35579, 118639, 200877, 281720, 360608>>, <<860161, 899629, 932853, 959602, 979692>>,
   <<893915, 853503, 807168, 755230, 698051>>, <<105807, 22670, -60624, -143497, -225375>>, <<-779580, -829006, -872679, -910295, -941593>>, <<-948225, -918499, -882397, -840172, -792115>>,
   <<-245077, -163528, -80844, 2401, 85629>>, <<683393, 741789, 795036, 842765, 884646>>, <<983555, 965108, 939963, 908295, 870323>>, <<379440, 301111, 220692, 138742, 55829>>,
   <<-573531, -639727, -701483, -758370, -809995>>, <<-999200, -992403, -978718, -958241, -931113>>, <<-506210, -432669, -356125, -277110, -196171>>, <<452187, 524858, 593887, 658795, 719129>>,
   <<994845, 999833, 997882, 989006, 973265>>, <<622847, 555565, 484428, 409929, 332585>>, <<-321794, -399487, -474407, -546035, -613873>>, <<-970579, -987253, -997075, -999977, -995939>>,
   <<-727019, -667344, -603037, -534546, -462344>>, <<184959, 266118, 345430, 422344, 496328>>, <<926886, 954912, 976310, 990932, 998677>>, <<816638, 765764, 709575, 648461, 582847>>,
   <<-44424, -127424, -209541, -290203, -368850>>, <<-864643, -903460, -936006, -962056, -981429>>, <<-889914, -848859, -801912, -749400, -691687>>, <<-97002, -13821, 69456, 152250, 233989>>,
   <<785092, 833923, 876966, 913922, 944535>>, <<945376, 914962, 878197, 835337, 786680>>, <<236485, 154789, 72018, -11253, -94446>>, <<-689829, -747697, -800375, -847498, -888739>>,
   <<-981918, -962754, -936907, -904558, -865930>>, <<-371237, -292660, -212052, -129972, -46990>>, <<580758, 646504, 707763, 764109, 815153>>, <<998806, 991274, 976863, 955671, 927847>>,
   <<498556, 424671, 347839, 268593, 187483>>, <<-460065, -532373, -600986, -665429, -725253>>, <<-995704, -999956, -997268, -987659, -971195>>, <<-615898, -548185, -476667, -401840, -324225>>,
   <<330161, 407585, 482179, 553428, 620835>>, <<972672, 988622, 997712, 999877, 995102>>, <<720912, 660725, 595952, 527043, 454476>>, <<-193651, -274641, -353724, -430352, -503993>>,
   <<-930173, -957503, -978188, -992084, -999094>>, <<-811498, -760042, -703311, -641699, -575633>>, <<53264, 136198, 218186, 298661, 377062>>, <<869055, 907217, 939084, 964432, 983087>>,
   <<885840, 844145, 796592, 743509, 685266>>, <<88188, 4969, -78284, -160994, -242586>>, <<-790544, -838776, -881186, -917480, -947406>>, <<-942454, -911355, -873930, -830440, -781186>>,
   <<-227877, -146039, -63188, 20102, 103253>>, <<696209, 753544, 805649, 852162, 892761>>, <<980203, 960322, 933775, 900747, 861468>>, <<363002, 284183, 203392, 121189, 38145>>,
   <<-587942, -653232, -713989, -769790, -820249>>, <<-998335, -990070, -974932, -953029, -924510>>, <<-490865, -416642, -339528, -260057, -178782>>, <<467905, 539844, 608036, 672009, 731317>>,
   <<996484, 999999, 996574, 986233, 969046>>, <<608900, 540760, 468866, 393718, 315838>>, <<-338504, -415652, -489916, -560779, -627751>>, <<-974690, -989916, -998272, -999700, -994189>>,
   <<-714750, -654056, -588822, -519501, -446575>>, <<202327, 283140, 361988, 438324, 511617>>, <<933385, 960018, 979987, 993155, 999431>>, <<806293, 754259, 696990, 634884, 568372>>,
   <<-62101, -144962, -226817, -307097, -385246>>, <<-873401, -910906, -942090, -966735, -984671>>, <<-881700, -839368, -791211, -737562, -678794>>, <<-79369, 3881, 87104, 169722, 251162>>,
   <<795933, 843561, 885335, 920964, 950201>>, <<939457, 907675, 869593, 825475, 775629>>, <<219248, 137276, 54351, -28952, -112054>>, <<-702537, -759334, -810862, -856761, -896715>>,
   <<-978413, -957817, -930572, -896869, -856941>>, <<-354742, -275687, -194719, -112400, -29300>>, <<595078, 659907, 720157, 775409, 825279>>, <<997785, 988786, 972924, 950309, 921099>>,
   <<483133, 408578, 331188, 251500, 170065>>, <<-475710, -547274, -615041, -678538, -737327>>, <<-997187, -999966, -995804, -984732, -966824>>, <<-601856, -533294, -461031, -385568, -307429>>,
   <<346819, 423686, 497612, 568085, 634615>>, <<976629, 991130, 998752, 999442, 993196>>, <<708531, 647334, 581644, 511917, 438637>>, <<-210988, -291619, -370226, -446263, -519204>>,
   <<-936526, -962459, -981712, -994151, -999691>>, <<-801027, -748419, -690617, -628022, -561068>>, <<70932, 153713, 235428, 315508, 393398>>, <<877676, 914522, 945021, 968960, 986175>>,
   <<877488, 834523, 785766, 731555, 672267>>, <<70541, -12733, -95919, -178439, -259721>>, <<-801261, -848283, -889417, -924378, -952923>>, <<-936388, -903926, -865189, -820448, -770012>>,
   <<-210605, -128504, -45511, 37797, 120844>>, <<708808, 765063, 816009, 861291, 900596>>, <<976545, 955234, 927294, 892918, 852344>>, <<346451, 267167, 186028, 103599, 20450>>,
   <<-602169, -666533, -726271, -780969, -830246>>, <<-997158, -987426, -970841, -947518, -917618>>, <<-475365, -400485, -322824, -242924, -161337>>, <<483476, 554660, 621995, 685013, 743276>>,
   <<997811, 999852, 994954, 983151, 964524>>, <<594763, 525784, 453157, 377385, 298993>>, <<-355108, -431688, -505271, -575348, -641432>>, <<-978494, -992269, -999156, -999109, -992127>>,
   <<-702258, -640563, -574422, -504294, -430666>>, <<219631, 300073, 378433, 454166, 526747>>, <<939591, 964823, 983357, 995067, 999871>>, <<795696, 742518, 684187, 621108, 553718>>,
   <<-79759, -162454, -244022, -323896, -401522>>, <<-881885, -918068, -947879, -971112, -987604>>, <<-873210, -829614, -780261, -725492, -665689>>, <<-61710, 21582, 104725, 187141, 268258>>,
   <<806525, 852936, 893427, 927717, 955569>>, <<933244, 900104, 860716, 815354, 764334>>, <<201943, 119720, 36666, -46642, -129626>>, <<-715024, -770734, -821095, -865756, -904409>>,
   <<-974602, -952579, -923945, -888899, -847683>>, <<-338135, -258628, -177325, -94792, -11601>>, <<609211, 673104, 732326, 786465, 835146>>, <<996451, 985987, 968680, 944650, 914063>>,
   <<467558, 392357, 314433, 234327, 152595>>, <<-491206, -562004, -628902, -691435, -749169>>, <<-998358, -999662, -994028, -981496, -962151>>, <<-587625, -518236, -445250, -369174, -290536>>,
   <<363367, 439654, 512889, 582564, 648196>>, <<980281, 993327, 999480, 998695, 990979>>, <<695928, 633740, 567153, 496630, 422660>>, <<-228258, -308506, -386612, -462035, -534251>>,
   <<-942585, -967113, -984928, -995907, -999975>>, <<-790304, -736561, -677706, -614148, -546327>>, <<88578, 171181, 252595, 332256, 409611>>, <<886022, 921540, 950661, 973185, 988954>>,
   <<868861, 824639, 774693, 719371, 659056>>, <<52872, -30432, -113524, -195829, -276775>>, <<-811727, -857524, -897369, -930986, -958141>>, <<-930029, -896213, -856177, -810199, -758597>>,
   <<-193267, -110929, -27820, 55481, 138397>>, <<721183, 776343, 826114, 870151, 908149>>, <<972581, 949848, 920522, 884808, 842953>>, <<329791, 250067, 168606, 85976, 2749>>,
   <<-616207, -679625, -738326, -791902, -839983>>, <<-995668, -984473, -966445, -941710, -910439>>, <<-459717, -384201, -306020, -225714, -143842>>, <<498896, 569303, 635758, 697802, 755002>>,
   <<998825, 999392, 993023, 979761, 959700>>, <<580439, 510645, 437306, 360933, 282054>>, <<-371601, -447588, -520468, -589736, -654912>>, <<-981993, -994310, -999727, -998205, -989755>>,
   <<-689546, -626869, -559842, -488929, -414623>>, <<236866, 316912, 394759, 469866, 541712>>, <<945504, 969325, 986419, 996667, 999998>>, <<784849, 730545, 671170, 607137, 538891>>,
   <<-97392, -179896, -261150, -340593, -417671>>, <<-890092, -924941, -953371, -975184, -990228>>, <<-864446, -819601, -769067, -713196, -652375>>, <<-44032, 39277, 122313, 204500, 285269>>,
   <<816864, 862043, 901239, 934179, 960637>>, <<926739, 892250, 851569, 804978, 752799>>, <<184574, 102127, 18970, -64317, -147159>>, <<-727288, -781892, -831070, -874480, -911820>>,
   <<-970485, -947043, -917029, -880650, -838159>>, <<-321423, -241488, -159876, -77155, 6101>>, <<623153, 686090, 744266, 797275, 844752>>, <<994805, 982879, 964133, 938694, 906741>>,
   <<451837, 376013, 297580, 217081, 135076>>, <<-506548, -576558, -642567, -704115, -760777>>, <<-999216, -999045, -991941, -977952, -957176>>, <<-573209, -503015, -429330, -352665, -273552>>,
   <<379802, 455484, 528005, 596861, 661574>>, <<983625, 995213, 999894, 997635, 988452>>, <<683107, 619947, 552485, 481187, 406551>>, <<-245457, -325296, -402877, -477662, -549131>>,
   <<-948350, -971464, -987836, -997351, -999945>>, <<-779334, -724473, -664583, -600081, -531414>>, <<106197, 188595, 269683, 348900, 425696>>, <<894091, 928269, 956004, 977104, 991423>>,
   <<859961, 814496, 763378, 706962, 645640>>, <<35187, -48121, -131094, -213158, -293742>>, <<-821939, -866496, -905040, -937302, -963059>>, <<-923378, -888220, -846897, -799696, -746945>>,
   <<-175868, -93319, -10121, 73147, 155907>>, <<733333, 787379, 835959, 878738, 915418>>, <<968311, 944163, 913462, 876421, 833297>>, <<313028, 232888, 151132, 68326, -14953>>,
   <<-630052, -692504, -750149, -802588, -849456>>, <<-993866, -981211, -961746, -935607, -902974>>, <<-443924, -367798, -289119, -208434, -126302>>, <<514159, 583767, 649323, 710372, 766491>>,
   <<999526, 998618, 990780, 976064, 954575>>, <<565933, 495345, 421318, 344367, 265027>>, <<-387977, -463347, -535502, -603940, -668187>>, <<-985183, -996040, -999984, -996988, -987073>>,
   <<-676617, -612979, -545086, -473410, -398449>>, <<254027, 333652, 410961, 485418, 556506>>, <<951119, 973524, 989172, 997955, 999812>>, <<773757, 718342, 657942, 592976, 523894>>,
   <<-114995, -197281, -278197, -357183, -433689>>, <<-898021, -931525, -958564, -978950, -992542>>, <<-855411, -809330, -757632, -700676, -638856>>, <<-26341, 56959, 139863, 221796, 302190>>,
   <<826947, 870880, 908768, 940349, 965404>>, <<919943, 884117, 842156, 794349, 741029>>, <<167147, 84501, 1269, -81973, -164645>>, <<-739323, -792805, -840785, -882929, -918946>>,
   <<-966064, -941211, -909825, -872125, -828373>>, <<-304610, -224272, -142377, -59494, 23802>>, <<636900, 698861, 755972, 807836, 854093>>, <<992847, 979464, 959283, 932444, 899134>>,
   <<435974, 359552, 280633, 199768, 117515>>, <<-521732, -590931, -656030, -716575, -772147>>, <<-999760, -998115, -989543, -974102, -951901>>, <<-558615, -487637, -413275, -336045, -256482>>,
   <<396118, 471172, 542955, 610970, 674745>>, <<986661, 996787, 999995, 996262, 985614>>, <<670072, 605960, 537643, 465594, 390314>>, <<-262579, -341984, -419015, -493139, -563839>>,
   <<-953817, -975510, -990434, -998483, -999602>>, <<-768120, -712157, -651252, -585827, -516336>>, <<123782, 205949, 286687, 365435, 441647>>, <<901879, 934707, 961047, 980717, 993581>>,
   <<850792, 804099, 751824, 694332, 632021>>, <<17490, -65794, -148623, -230419, -310617>>, <<-831892, -875197, -912427, -943325, -967675>>, <<-916438, -879948, -837351, -788942, -735058>>,
   <<-158415, -75679, 7582, 90790, 173368>>, <<745253, 798168, 845543, 887049, 922399>>, <<963739, 938183, 906116, 867759, 823381>>, <<296167, 215636, 133609, 50655, -32651>>,
   <<-643700, -705166, -761737, -813022, -858664>>, <<-991752, -977642, -956746, -929211, -895226>>, <<-427992, -351279, -272128, -191088, -108722>>, <<529261, 598048, 662683, 722720, 777740>>,
   <<999914, 997532, 988226, 972062, 949151>>, <<551250, 479889, 405198, 327694, 247916>>, <<-404231, -478962, -550368, -617954, -681252>>, <<-988065, -997458, -999928, -995459, -984081>>,
   <<-663477, -598896, -530160, -457744, -382151>>, <<271108, 350287, 427035, 500819, 571127>>, <<956437, 977418, 991615, 998930, 999312>>, <<762421, 705915, 644509, 578629, 508734>>,
   <<-132561, -214604, -295157, -373661, -449572>>, <<-905668, -937817, -963457, -982410, -994544>>, <<-846108, -798806, -745960, -687936, -625138>>, <<-8641, 74623, 157369, 239023, 319017>>,
   <<836771, 879444, 916013, 946224, 969869>>, <<912859, 875707, 832478, 783471, 729027>>, <<149668, 66849, -16433, -99602, -182079>>, <<-751127, -803470, -850237, -891102, -925783>>,
   <<-961340, -935083, -902337, -863328, -818326>>, <<-287702, -206986, -124833, -41814, 41495>>, <<650448, 711413, 767441, 818143, 863166>>, <<990578, 975741, 954133, 925902, 891245>>,
   <<419975, 342977, 263599, 182391, 99918>>, <<-536751, -605119, -669287, -728810, -783275>>, <<-999992, -996872, -986834, -969947, -946328>>, <<-543845, -472106, -397091, -319320, -239332>>,
   <<412310, 486712, 557735, 624888, 687704>>, <<989388, 998049, 999782, 994576, 982468>>, <<656827, 591784, 522633, 449855, 373955>>, <<-279619, -358565, -435023, -508461, -578371>>,
   <<-958985, -979251, -992721, -999301, -998946>>, <<-756665, -699619, -637717, -571389, -501095>>, <<141328, 223239, 303601, 381856, 457460>>, <<909385, 940852, 965789, 984023, 995428>>,
   <<841356, 793449, 740034, 681484, 618203>>, <<-212, -83448, -166105, -247609, -327395>>, <<-841585, -883623, -919528, -949052, -971988>>, <<-909210, -871400, -827542, -777941, -722941>>,
   <<-140912, -58016, 25282, 108404, 190775>>, <<756940, 808707, 854862, 895083, 929092>>, <<958864, 931908, 898485, 858826, 813206>>, <<279212, 198317, 116045, 32968, -50338>>,
   <<-657146, -717607, -773087, -823201, -867602>>, <<-989328, -973766, -951447, -922523, -887197>>, <<-411927, -334650, -255051, -173682, -91108>>, <<544198, 612141, 675836, 734841, 788746>>,
   <<999989, 996133, 985363, 967754, 943429>>, <<536394, 464284, 388951, 310918, 230728>>, <<-420359, -494426, -565061, -631775, -694104>>, <<-990637, -998563, -999559, -993618, -980780>>,
   <<-650128, -584626, -515067, -441933, -365732>>, <<288105, 366813, 442975, 516062, 585568>>, <<961455, 981005, 993747, 999592, 998499>>, <<750847, 693266, 630873, 564101, 493414>>,
   <<-150086, -231860, -312024, -390022, -465314>>, <<-913032, -943815, -968047, -985561, -996235>>, <<-836541, -788032, -734053, -674980, -611223>>, <<9062, 92264, 174826, 256174, 335744>>,
   <<846332, 887732, 922970, 951803, 974029>>, <<905488, 867023, 822540, 772348, 716796>>, <<132142, 49177, -34130, -117200, -199457>>, <<-762695, -813883, -859422, -898996, -932330>>,
   <<-956315, -928663, -894565, -854259, -808024>>, <<-270703, -189635, -107250, -24121, 59175>>, <<663791, 723742, 778670, 828193, 871969>>, <<987999, 971713, 948684, 919070, 883078>>,
   <<403844, 326295, 246482, 164958, 82289>>, <<-551603, -619118, -682335, -740817, -794157>>, <<-999910, -995317, -983816, -965488, -940458>>, <<-528904, -456427, -380782, -302495, -222107>>,
   <<428373, 502099, 572341, 638610, 700448>>, <<991805, 998997, 999256, 992579, 979014>>, <<643376, 577421, 507459, 433975, 357479>>, <<-296571, -375034, -450894, -523624, -592721>>,
   <<-963852, -982685, -994698, -999807, -997976>>, <<-744973, -686861, -623981, -556772, -485697>>, <<158831, 240460, 320420, 398156, 473129>>, <<916605, 946702, 970228, 987020, 996962>>,
   <<831657, 782551, 728013, 668422, 604193>>, <<-17913, -101075, -183535, -264721, -344070>>, <<-851015, -891773, -926342, -954481, -975996>>, <<-901698, -862580, -817475, -766696, -710597>>,
   <<-123364, -40335, 42974, 125985, 208122>>, <<768389, 818993, 863912, 902836, 935493>>, <<953689, 925342, 890573, 849623, 802777>>, <<262171, 180936, 98445, 15270, -68010>>,
   <<-670386, -729823, -784194, -833122, -876269>>, <<-986594, -969586, -945849, -915547, -878891>>, <<-395732, -317917, -237895, -156222, -73465>>, <<558964, 626043, 688778, 746732, 799504>>,
   <<999750, 994421, 982191, 963144, 937412>>, <<521370, 448533, 372582, 294045, 213468>>, <<-436355, -509735, -579578, -645398, -706738>>, <<-992898, -999355, -998877, -991465, -977173>>,
   <<-636576, -570173, -499813, -425985, -349199>>, <<305011, 383223, 458776, 531144, 599826>>, <<966172, 984286, 995568, 999941, 997373>>, <<739038, 680400, 617039, 549396, 477940>>,
   <<-167564, -249043, -328793, -406261, -480910>>, <<-920109, -949517, -972335, -988404, -997614>>, <<-826710, -777010, -721917, -661814, -597117>>, <<26762, 109876, 192227, 273245, 352366>>,
   <<855629, 895742, 929639, 957083, 977885>>, <<897834, 858067, 812344, 760983, 704340>>, <<114575, 31488, -51817, -134762, -216772>>, <<-774025, -824041, -868337, -906608, -938585>>,
   <<-950990, -921951, -886513, -844923, -797468>>, <<-253620, -172224, -89633, -6420, 76837>>, <<676927, 735844, 789655, 837984, 880498>>, <<985110, 967380, 942937, 911950, 874633>>,
   <<387587, 309511, 229287, 147472, 64634>>, <<-566282, -632922, -695169, -752591, -804790>>, <<-999514, -993450, -980490, -960726, -934294>>, <<-513798, -440605, -364354, -285575, -204813>>,
   <<444301, 517329, 586767, 652133, 712972>>, <<993911, 999633, 998417, 990271, 975253>>, <<629724, 562878, 492126, 417959, 340891>>, <<-313430, -391385, -466623, -538624, -606885>>,
   <<-968418, -985811, -996362, -999999, -996694>>, <<-733047, -673888, -610051, -541980, -470147>>, <<176283, 257604, 337138, 414332, 488650>>, <<923539, 952256, 974363, 989709, 998185>>,
   <<821697, 771407, 715763, 655151, 589992>>, <<-35610, -118670, -200907, -281750, -360637>>, <<-860178, -899643, -932865, -959612, -979699>>, <<-893903, -853489, -807151, -755211, -698030>>,
   <<-105778, -22641, 60653, 143526, 225403>>, <<779598, 829022, 872692, 910306, 941602>>, <<948215, 918486, 882382, 840154, 792096>>, <<245047, 163497, 80813, -2432, -85660>>,
   <<-683416, -741810, -795055, -842783, -884661>>, <<-983550, -965101, -939954, -908283, -870309>>, <<-379413, -301083, -220664, -138713, -55799>>, <<573554, 639749, 701503, 758389, 810011>>,
   <<999198, 992398, 978711, 958231, 931101>>, <<506183, 432641, 356096, 277080, 196140>>, <<-452214, -524885, -593913, -658818, -719151>>, <<-994849, -999835, -997881, -989002, -973259>>,
   <<-622824, -555541, -484403, -409902, -332557>>, <<321822, 399514, 474433, 546059, 613896>>, <<970586, 987257, 997077, 999976, 995935>>, <<726997, 667320, 603012, 534519, 462316>>,
   <<-184990, -266148, -345459, -422373, -496355>>, <<-926898, -954922, -976318, -990937, -998680>>, <<-816621, -765745, -709555, -648439, -582824>>, <<44453, 127453, 209569, 290230, 368877>>,
   <<864657, 903471, 936016, 962063, 981434>>, <<889899, 848842, 801893, 749379, 691664>>, <<96971, 13790, -69487, -152281, -234019>>, <<-785112, -833940, -876981, -913935, -944546>>,
   <<-945367, -914950, -878184, -835322, -786663>>, <<-236457, -154760, -71989, 11282, 94475>>, <<689850, 747716, 800392, 847513, 888752>>, <<981912, 962744, 936895, 904544, 865914>>,
   <<371208, 292630, 212021, 129941, 46959>>, <<-580783, -646528, -707785, -764130, -815171>>, <<-998805, -991271, -976857, -955663, -927837>>, <<-498531, -424645, -347812, -268565, -187454>>,
   <<460090, 532397, 601009, 665450, 725273>>, <<995706, 999956, 997265, 987653, 971186>>, <<615874, 548159, 476639, 401812, 324196>>, <<-330191, -407613, -482207, -553454, -620860>>,
   <<-972680, -988628, -997715, -999877, -995100>>, <<-720892, -660703, -595929, -527018, -454450>>, <<193680, 274669, 353751, 430378, 504018>>, <<930183, 957511, 978193, 992087, 999094>>,
   <<811480, 760022, 703289, 641675, 575607>>, <<-53295, -136228, -218217, -298690, -377091>>, <<-869071, -907231, -939095, -964441, -983094>>, <<-885827, -844130, -796574, -743490, -685245>>,
   <<-88159, -4940, 78313, 161022, 242614>>, <<790562, 838791, 881199, 917491, 947415>>, <<942443, 911341, 873914, 830422, 781166>>, <<227846, 146008, 63157, -20133, -103284>>,
   <<-696232, -753565, -805668, -852179, -892775>>, <<-980198, -960314, -933765, -900735, -861454>>, <<-362975, -284156, -203364, -121160, -38116>>, <<587965, 653254, 714009, 769808, 820265>>,
   <<998333, 990064, 974925, 953018, 924498>>, <<490837, 416614, 339499, 260027, 178751>>, <<-467932, -539870, -608061, -672032, -731339>>, <<-996487, -1000000, -996573, -986229, -969040>>,
   <<-608877, -540735, -468841, -393692, -315811>>, <<338531, 415679, 489941, 560803, 627773>>, <<974695, 989919, 998273, 999698, 994185>>, <<714728, 654032, 588797, 519474, 446547>>,
   <<-202357, -283170, -362017, -438352, -511644>>, <<-933397, -960027, -979994, -993160, -999433>>, <<-806276, -754240, -696970, -634862, -568348>>, <<62130, 144991, 226845, 307125, 385273>>,
   <<873414, 910918, 942099, 966742, 984675>>, <<881685, 839351, 791191, 737540, 678771>>, <<79338, -3912, -87135, -169753, -251193>>, <<-795952, -843579, -885350, -920977, -950211>>,
   <<-939448, -907663, -869579, -825459, -775611>>, <<-219220, -137247, -54321, 28981, 112082>>, <<702557, 759353, 810878, 856776, 896727>>, <<978406, 957807, 930560, 896854, 856924>>,
   <<354712, 275657, 194688, 112369, 29269>>, <<-595103, -659931, -720179, -775429, -825297>>, <<-997784, -988782, -972918, -950301, -921089>>, <<-483107, -408552, -331161, -251471, -170037>>,
   <<475735, 547299, 615063, 678559, 737346>>, <<997189, 999965, 995801, 984725, 966816>>, <<601831, 533267, 461003, 385539, 307399>>, <<-346848, -423714, -497639, -568111, -634639>>,
   <<-976637, -991135, -998755, -999442, -993194>>, <<-708511, -647312, -581620, -511892, -438611>>, <<211016, 291647, 370253, 446289, 519228>>, <<936535, 962466, 981717, 994154, 999691>>,
   <<801008, 748398, 690594, 627997, 561042>>, <<-70963, -153744, -235458, -315537, -393427>>, <<-877691, -914535, -945031, -968969, -986181>>, <<-877475, -834507, -785748, -731535, -672245>>,
   <<-70512, 12762, 95948, 178468, 259749>>, <<801278, 848298, 889429, 924388, 952931>>, <<936377, 903912, 865173, 820430, 769992>>, <<210574, 128473, 45480, -37829, -120875>>,
   <<-708830, -765084, -816028, -861308, -900610>>, <<-976539, -955226, -927284, -892905, -852329>>, <<-346424, -267139, -186000, -103570, -20421>>, <<602192, 666554, 726291, 780986, 830262>>,
   <<997155, 987420, 970833, 947507, 917605>>, <<475338, 400456, 322795, 242894, 161307>>, <<-483503, -554686, -622019, -685036, -743297>>, <<-997814, -999853, -994952, -983147, -964517>>,
   <<-594739, -525760, -453131, -377358, -298965>>, <<355135, 431714, 505296, 575372, 641454>>, <<978500, 992271, 999156, 999107, 992123>>, <<702236, 640539, 574396, 504267, 430638>>,
   <<-219661, -300103, -378462, -454194, -526774>>, <<-939603, -964832, -983364, -995071, -999873>>, <<-795679, -742499, -684166, -621085, -553694>>, <<79788, 162483, 244050, 323923, 401548>>,
   <<881898, 918079, 947888, 971118, 987608>>, <<873194, 829596, 780241, 725471, 665665>>, <<61679, -21613, -104756, -187171, -268288>>, <<-806544, -852952, -893441, -927729, -955578>>,
   <<-933234, -900091, -860701, -815338, -764315>>, <<-201914, -119691, -36637, 46671, 129655>>, <<715045, 770752, 821111, 865770, 904421>>, <<974594, 952569, 923933, 888884, 847666>>,
   <<338106, 258598, 177295, 94761, 11570>>, <<-609236, -673128, -732348, -786485, -835164>>, <<-996449, -985983, -968673, -944641, -914052>>, <<-467533, -392331, -314406, -234299, -152566>>,
   <<491231, 562028, 628925, 691456, 749188>>, <<998359, 999660, 994024, 981489, 962142>>, <<587599, 518209, 445222, 369145, 290506>>, <<-363397, -439682, -512916, -582590, -648220>>,
   <<-980288, -993332, -999482, -998694, -990976>>, <<-695907, -633717, -567129, -496605, -422634>>, <<228287, 308533, 386639, 462061, 534276>>, <<942595, 967119, 984932, 995909, 999974>>,
   <<790285, 736540, 677683, 614123, 546300>>, <<-88609, -171211, -252625, -332286, -409640>>, <<-886037, -921552, -950672, -973193, -988959>>, <<-868847, -824623, -774675, -719351, -659035>>,
   <<-52843, 30461, 113553, 195858, 276803>>, <<811744, 857538, 897381, 930996, 958149>>, <<930017, 896199, 856160, 810180, 758577>>, <<193236, 110898, 27789, -55512, -138428>>,
   <<-721205, -776363, -826132, -870167, -908163>>, <<-972575, -949839, -920511, -884795, -842938>>, <<-329764, -250038, -168578, -85947, -2720>>, <<616230, 679646, 738345, 791920, 839998>>,
   <<995664, 984467, 966436, 941699, 910425>>, <<459689, 384173, 305990, 225684, 143811>>, <<-498923, -569328, -635783, -697824, -755023>>, <<-998827, -999392, -993020, -979756, -959693>>,
   <<-580415, -510620, -437280, -360905, -282026>>, <<371627, 447613, 520493, 589760, 654934>>, <<981997, 994312, 999726, 998202, 989750>>, <<689523, 626845, 559816, 488902, 414594>>,
   <<-236896, -316942, -394787, -469893, -541738>>, <<-945514, -969334, -986425, -996671, -999999>>, <<-784831, -730525, -671149, -607114, -538866>>, <<97421, 179924, 261178, 340620, 417697>>,
   <<890105, 924952, 953379, 975189, 990231>>, <<864430, 819582, 769047, 713174, 652351>>, <<44001, -39308, -122344, -204531, -285299>>, <<-816882, -862059, -901253, -934191, -960646>>,
   <<-926728, -892238, -851554, -804961, -752781>>, <<-184545, -102098, -18941, 64346, 147188>>, <<727308, 781910, 831086, 874493, 911832>>, <<970477, 947033, 917016, 880635, 838142>>,
   <<321394, 241457, 159845, 77124, -6133>>, <<-623178, -686113, -744287, -797295, -844769>>, <<-994803, -982875, -964126, -938685, -906729>>, <<-451811, -375986, -297552, -217053, -135047>>,
   <<506573, 576582, 642589, 704136, 760796>>, <<999216, 999043, 991936, 977945, 957166>>, <<573184, 502988, 429302, 352636, 273522>>, <<-379831, -455512, -528031, -596886, -661598>>,
   <<-983632, -995217, -999895, -997634, -988448>>, <<-683086, -619925, -552460, -481162, -406524>>, <<245485, 325323, 402903, 477687, 549156>>, <<948358, 971470, 987839, 997353, 999944>>,
   <<779314, 724451, 664560, 600056, 531388>>, <<-106228, -188625, -269713, -348930, -425724>>, <<-894105, -928281, -956014, -977111, -991428>>, <<-859947, -814480, -763360, -706942, -645618>>,
   <<-35158, 48150, 131123, 213186, 293770>>, <<821955, 866510, 905052, 937312, 963066>>, <<923365, 888205, 846879, 799677, 746924>>, <<175838, 93288, 10090, -73178, -155938>>,
   <<-733355, -787398, -835977, -878753, -915431>>, <<-968305, -944154, -913451, -876408, -833282>>, <<-313000, -232860, -151103, -68297, 14982>>, <<630075, 692525, 750168, 802605, 849471>>,
   <<993862, 981204, 961737, 935595, 902960>>, <<443896, 367769, 289089, 208403, 126271>>, <<-514186, -583792, -649347, -710394, -766512>>, <<-999528, -998618, -990777, -976059, -954567>>,
   <<-565909, -495319, -421292, -344340, -264998>>, <<388003, 463373, 535526, 603963, 668208>>, <<985187, 996042, 999983, 996985, 987067>>, <<676594, 612954, 545060, 473383, 398420>>,
   <<-254057, -333681, -410990, -485446, -556532>>, <<-951130, -973532, -989178, -997958, -999812>>, <<-773738, -718322, -657921, -592953, -523870>>, <<115024, 197309, 278225, 357210, 433716>>,
   <<898033, 931535, 958572, 978955, 992544>>, <<855395, 809311, 757611, 700653, 638832>>, <<26310, -56990, -139894, -221827, -302220>>, <<-826965, -870895, -908782, -940360, -965413>>,
   <<-919932, -884104, -842140, -794332, -741010>>, <<-167118, -84472, -1240, 82002, 164674>>, <<739343, 792823, 840800, 882942, 918957>>, <<966055, 941200, 909812, 872110, 828355>>,
   <<304580, 224241, 142346, 59463, -23833>>, <<-636924, -698884, -755992, -807854, -854109>>, <<-992844, -979459, -959276, -932434, -899122>>, <<-435948, -359525, -280606, -199739, -117486>>,
   <<521756, 590955, 656051, 716595, 772165>>, <<999760, 998112, 989537, 974094, 951891>>, <<558589, 487610, 413247, 336015, 256452>>, <<-396147, -471199, -542981, -610995, -674768>>,
   <<-986667, -996790, -999995, -996260, -985610>>, <<-670051, -605937, -537619, -465569, -390287>>, <<262607, 342011, 419042, 493164, 563863>>, <<953825, 975516, 990437, 998483, 999600>>,
   <<768100, 712135, 651228, 585801, 516309>>, <<-123813, -205980, -286717, -365464, -441675>>, <<-901893, -934718, -961056, -980724, -993585>>, <<-850777, -804082, -751805, -694311, -631998>>,
   <<-17461, 65824, 148651, 230448, 310645>>, <<831908, 875210, 912438, 943334, 967682>>, <<916425, 879932, 837333, 788922, 735036>>, <<158384, 75648, -7613, -90821, -173399>>,
   <<-745274, -798187, -845560, -887064, -922412>>, <<-963732, -938173, -906104, -867745, -823365>>, <<-296139, -215608, -133580, -50626, 32680>>, <<643722, 705186, 761756, 813038, 858678>>,
   <<991747, 977635, 956737, 929199, 895211>>, <<427964, 351250, 272098, 191057, 108691>>, <<-529288, -598073, -662707, -722742, -777760>>, <<-999916, -997531, -988222, -972056, -949142>>,
   <<-551226, -479864, -405171, -327667, -247888>>, <<404258, 478987, 550392, 617977, 681273>>, <<988068, 997459, 999927, 995455, 984074>>, <<663453, 598871, 530133, 457716, 382122>>,
   <<-271138, -350316, -427063, -500846, -571152>>, <<-956447, -977425, -991620, -998932, -999312>>, <<-762403, -705894, -644487, -578606, -508709>>, <<132590, 214632, 295184, 373688, 449598>>,
   <<905680, 937826, 963464, 982414, 994546>>, <<846091, 798787, 745938, 687913, 625113>>, <<8610, -74654, -157400, -239053, -319047>>, <<-836788, -879459, -916026, -946235, -969877>>,
   <<-912847, -875694, -832462, -783454, -729007>>, <<-149639, -66820, 16462, 99631, 182108>>, <<751146, 803487, 850251, 891115, 925793>>, <<961331, 935072, 902323, 863311, 818308>>,
   <<287672, 206955, 124802, 41783, -41526>>, <<-650472, -711435, -767461, -818161, -863182>>, <<-990575, -975736, -954125, -925892, -891233>>, <<-419949, -342950, -263571, -182363, -99889>>,
   <<536776, 605142, 669309, 728830, 783292>>, <<999991, 996869, 986828, 969939, 946317>>, <<543818, 472078, 397062, 319290, 239302>>, <<-412339, -486739, -557762, -624913, -687727>>,
   <<-989394, -998052, -999782, -994574, -982463>>, <<-656805, -591760, -522608, -449829, -373928>>, <<279647, 358592, 435049, 508486, 578394>>, <<958992, 979256, 992724, 999301, 998943>>,
   <<756644, 699596, 637692, 571363, 501068>>, <<-141359, -223270, -303631, -381884, -457488>>, <<-909398, -940863, -965798, -984029, -995432>>, <<-841341, -793432, -740015, -681463, -618181>>,
   <<241, 83477, 166133, 247637, 327422>>, <<841601, 883636, 919539, 949060, 971994>>, <<909197, 871384, 827524, 777921, 722919>>, <<140881, 57985, -25313, -108435, -190805>>,
   <<-756961, -808726, -854878, -895097, -929104>>, <<-958856, -931898, -898473, -858811, -813190>>, <<-279184, -198288, -116016, -32939, 50367>>, <<657168, 717627, 773105, 823217, 867616>>,
   <<989323, 973759, 951436, 922511, 887182>>, <<411898, 334621, 255021, 173651, 91077>>, <<-544224, -612166, -675860, -734863, -788765>>, <<-999990, -996131, -985359, -967748, -943420>>,
   <<-536370, -464258, -388924, -310891, -230700>>, <<420385, 494451, 565085, 631797, 694125>>, <<990640, 998564, 999557, 993613, 980773>>, <<650104, 584601, 515040, 441905, 365703>>,
   <<-288135, -366842, -443003, -516089, -585593>>, <<-961464, -981012, -993752, -999594, -998499>>, <<-750828, -693245, -630850, -564077, -493389>>, <<150115, 231888, 312051, 390049, 465339>>,
   <<913043, 943824, 968054, 985565, 996237>>, <<836523, 788012, 734032, 674957, 611198>>, <<-9093, -92295, -174856, -256204, -335774>>, <<-846349, -887747, -922983, -951813, -974037>>,
   <<-905477, -867009, -822524, -772330, -716776>>, <<-132113, -49147, 34159, 117229, 199485>>, <<762714, 813899, 859436, 899008, 932340>>, <<956305, 928650, 894551, 854242, 808005>>,
   <<270673, 189604, 107219, 24090, -59206>>, <<-663815, -723764, -778690, -828211, -871984>>, <<-987995, -971707, -948675, -919059, -883064>>, <<-403818, -326268, -246454, -164929, -82259>>,
   <<551627, 619140, 682356, 740836, 794174>>, <<999908, 995313, 983810, 965479, 940447>>, <<528878, 456399, 380753, 302465, 222077>>, <<-428401, -502126, -572367, -638635, -700470>>,
   <<-991810, -999000, -999256, -992577, -979009>>, <<-643354, -577398, -507434, -433949, -357452>>, <<296598, 375061, 450920, 523649, 592744>>, <<963859, 982690, 994700, 999806, 997973>>,
   <<744952, 686838, 623957, 556745, 485670>>, <<-158861, -240490, -320449, -398185, -473157>>, <<-916618, -946713, -970236, -987026, -996966>>, <<-831641, -782533, -727993, -668401, -604170>>,
   <<17943, 101104, 183563, 264749, 344097>>, <<851030, 891786, 926352, 954489, 976002>>, <<901684, 862563, 817456, 766676, 710575>>, <<123333, 40304, -43005, -126016, -208152>>,
   <<-768410, -819011, -863929, -902850, -935505>>, <<-953681, -925332, -890560, -849608, -802760>>, <<-262143, -180907, -98416, -15241, 68039>>, <<670408, 729842, 784212, 833138, 876282>>,
   <<986588, 969577, 945838, 915534, 878875>>, <<395703, 317887, 237865, 156191, 73434>>, <<-558990, -626068, -688801, -746753, -799523>>, <<-999750, -994419, -982186, -963137, -937402>>,
   <<-521346, -448507, -372555, -294017, -213439>>, <<436381, 509760, 579601, 645420, 706759>>, <<992901, 999356, 998874, 991460, 977165>>, <<636552, 570147, 499786, 425956, 349170>>,
   <<-305041, -383252, -458803, -531170, -599851>>, <<-966180, -984292, -995572, -999942, -997372>>, <<-739019, -680379, -617017, -549372, -477915>>, <<167593, 249071, 328820, 406288, 480935>>,
   <<920120, 949526, 972341, 988408, 997615>>, <<826693, 776990, 721895, 661790, 597092>>, <<-26793, -109907, -192258, -273275, -352395>>, <<-855645, -895756, -929651, -957093, -977892>>,
   <<-897822, -858052, -812327, -760964, -704320>>, <<-114546, -31459, 51846, 134791, 216800>>, <<774043, 824057, 868351, 906619, 938595>>, <<950980, 921938, 886498, 844906, 797449>>,
   <<253590, 172194, 89602, 6389, -76868>>, <<-676950, -735866, -789674, -838002, -880514>>, <<-985105, -967374, -942928, -911938, -874619>>, <<-387560, -309483, -229259, -147444, -64605>>,
   <<566306, 632944, 695189, 752610, 804807>>, <<999512, 993445, 980484, 960717, 934282>>, <<513771, 440577, 364325, 285545, 204782>>, <<-444329, -517356, -586793, -652156, -712994>>,
   <<-993916, -999635, -998416, -990268, -975247>>, <<-629701, -562854, -492101, -417933, -340863>>, <<313457, 391411, 466649, 538648, 606908>>, <<968424, 985815, 996364, 999998, 996691>>,
   <<733026, 673864, 610026, 541954, 470120>>, <<-176314, -257635, -337168, -414361, -488678>>, <<-923551, -952266, -974371, -989714, -998188>>, <<-821681, -771389, -715743, -655129, -589969>>,
   <<35639, 118699, 200936, 281778, 360664>>, <<860192, 899655, 932874, 959619, 979704>>, <<893888, 853472, 807132, 755191, 698008>>, <<105747, 22610, -60684, -143557, -225434>>,
   <<-779618, -829040, -872708, -910320, -941613>>, <<-948206, -918475, -882369, -840139, -792078>>, <<-245019, -163469, -80784, 2461, 85689>>, <<683437, 741829, 795073, 842798, 884674>>,
   <<983544, 965092, 939943, 908270, 870293>>, <<379384, 301054, 220633, 138682, 55768>>, <<-573580, -639773, -701526, -758410, -810030>>, <<-999198, -992396, -978706, -958224, -931091>>,
   <<-506158, -432615, -356069, -277052, -196112>>, <<452240, 524910, 593936, 658840, 719171>>, <<994851, 999834, 997878, 988997, 973251>>, <<622799, 555515, 484375, 409874, 332528>>,
   <<-321851, -399542, -474460, -546085, -613920>>, <<-970594, -987263, -997080, -999977, -995933>>, <<-726977, -667299, -602989, -534495, -462290>>, <<185018, 266176, 345486, 422399, 496380>>,
   <<926909, 954930, 976323, 990940, 998680>>, <<816603, 765725, 709532, 648415, 582798>>, <<-44484, -127484, -209600, -290260, -368906>>, <<-864673, -903485, -936027, -962072, -981441>>,
   <<-889886, -848827, -801876, -749360, -691643>>, <<-96942, -13761, 69516, 152310, 234047>>, <<785129, 833956, 876995, 913946, 944555>>, <<945356, 914937, 878168, 835304, 786643>>,
   <<236427, 154729, 71958, -11313, -94506>>, <<-689873, -747737, -800411, -847530, -888767>>, <<-981907, -962737, -936886, -904532, -865900>>, <<-371181, -292602, -211993, -129912, -46930>>,
   <<580807, 646550, 707805, 764148, 815187>>, <<998803, 991266, 976850, 955653, 927824>>, <<498504, 424617, 347783, 268535, 187423>>, <<-460118, -532424, -601035, -665474, -725294>>,
   <<-995710, -999957, -997264, -987649, -971180>>, <<-615851, -548135, -476614, -401785, -324168>>, <<330218, 407640, 482232, 553478, 620882>>, <<972686, 988631, 997716, 999876, 995096>>,
   <<720870, 660680, 595904, 526992, 454422>>, <<-193710, -274699, -353780, -430406, -504045>>, <<-930195, -957521, -978201, -992091, -999097>>, <<-811463, -760003, -703268, -641653, -575584>>,
   <<53324, 136257, 218245, 298718, 377118>>, <<869085, 907243, 939104, 964448, 983098>>, <<885812, 844113, 796555, 743469, 685222>>, <<88128, 4909, -78344, -161053, -242645>>,
   <<-790581, -838809, -881214, -917504, -947426>>, <<-942434, -911330, -873901, -830406, -781148>>, <<-227818, -145979, -63127, 20163, 103313>>, <<696253, 753584, 805685, 852194, 892788>>,
   <<980191, 960305, 933753, 900721, 861438>>, <<362946, 284126, 203333, 121130, 38085>>, <<-587991, -653278, -714031, -769829, -820283>>, <<-998332, -990061, -974919, -953010, -924487>>,
   <<-490812, -416587, -339471, -259999, -178723>>, <<467958, 539895, 608084, 672053, 731358>>, <<996489, 999999, 996569, 986223, 969032>>, <<608852, 540709, 468813, 393663, 315781>>,
   <<-338561, -415707, -489969, -560829, -627798>>, <<-974703, -989925, -998276, -999698, -994182>>, <<-714708, -654010, -588773, -519450, -446521>>, <<202386, 283198, 362044, 438378, 511669>>,
   <<933407, 960034, 979999, 993163, 999433>>, <<806257, 754220, 696947, 634838, 568322>>, <<-62162, -145022, -226875, -307155, -385302>>, <<-873430, -910931, -942110, -966751, -984681>>,
   <<-881671, -839335, -791174, -737521, -678750>>, <<-79309, 3941, 87164, 169782, 251221>>, <<795970, 843594, 885363, 920987, 950220>>, <<939437, 907649, 869563, 825441, 775591>>,
   <<219189, 137216, 54290, -29012, -112113>>, <<-702580, -759374, -810897, -856792, -896741>>, <<-978401, -957799, -930550, -896842, -856910>>, <<-354685, -275629, -194660, -112340, -29240>>,
   <<595126, 659953, 720199, 775447, 825313>>, <<997781, 988777, 972910, 950291, 921076>>, <<483080, 408523, 331131, 251441, 170006>>, <<-475763, -547325, -615088, -678583, -737367>>,
   <<-997192, -999965, -995799, -984721, -966809>>, <<-601808, -533243, -460977, -385512, -307371>>, <<346875, 423740, 497664, 568135, 634662>>, <<976642, 991138, 998755, 999440, 993189>>,
   <<708488, 647288, 581595, 511865, 438583>>, <<-211047, -291676, -370282, -446317, -519255>>, <<-936547, -962475, -981723, -994158, -999693>>, <<-800991, -748379, -690573, -627975, -561018>>,
   <<70992, 153773, 235486, 315565, 393454>>, <<877705, 914546, 945040, 968975, 986185>>, <<877459, 834490, 785728, 731514, 672222>>, <<70481, -12793, -95979, -178499, -259779>>,
   <<-801297, -848315, -889444, -924401, -952941>>, <<-936367, -903900, -865159, -820413, -769974>>, <<-210546, -128444, -45451, 37858, 120904>>, <<708850, 765102, 816044, 861322, 900622>>,
   <<976532, 955216, 927271, 892891, 852313>>, <<346394, 267109, 185969, 103539, 20390>>, <<-602217, -666578, -726313, -781006, -830279>>, <<-997153, -987416, -970826, -947498, -917594>>,
   <<-475312, -400429, -322767, -242865, -161278>>, <<483529, 554710, 622042, 685056, 743316>>, <<997815, 999851, 994948, 983140, 964508>>, <<594714, 525733, 453103, 377329, 298935>>,
   <<-355164, -431742, -505323, -575397, -641478>>, <<-978507, -992276, -999158, -999106, -992120>>, <<-702215, -640517, -574372, -504242, -430612>>, <<219689, 300130, 378488, 454220, 526798>>,
   <<939612, 964838, 983368, 995073, 999872>>, <<795659, 742478, 684143, 621061, 553668>>, <<-79819, -162514, -244080, -323953, -401577>>, <<-881913, -918092, -947898, -971126, -987614>>,
   <<-873180, -829581, -780223, -725451, -665644>>, <<-61650, 21642, 104785, 187200, 268316>>, <<806560, 852967, 893454, 927740, 955586>>, <<933223, 900077, 860685, 815319, 764295>>,
   <<201884, 119660, 36606, -46702, -129686>>, <<-715067, -770773, -821129, -865786, -904435>>, <<-974588, -952561, -923922, -888871, -847651>>, <<-338079, -258570, -177266, -94732, -11541>>,
   <<609259, 673149, 732367, 786502, 835179>>, <<996446, 985977, 968665, 944630, 914039>>, <<467505, 392302, 314376, 234269, 152535>>, <<-491258, -562054, -628949, -691479, -749209>>,
   <<-998361, -999661, -994022, -981484, -962134>>, <<-587576, -518184, -445196, -369118, -290478>>, <<363424, 439708, 512941, 582613, 648242>>, <<980293, 993334, 999481, 998692, 990971>>,
   <<695885, 633693, 567103, 496578, 422605>>, <<-228317, -308563, -386667, -462088, -534302>>, <<-942606, -967128, -984938, -995913, -999975>>, <<-790267, -736521, -677662, -614100, -546276>>,
   <<88638, 171240, 252653, 332313, 409666>>, <<886050, 921563, 950680, 973199, 988963>>, <<868831, 824605, 774655, 719329, 659011>>, <<52812, -30492, -113584, -195888, -276833>>,
   <<-811762, -857555, -897395, -931008, -958158>>, <<-930007, -896186, -856146, -810163, -758558>>, <<-193208, -110869, -27760, 55541, 138457>>, <<721225, 776381, 826148, 870181, 908175>>,
   <<972566, 949829, 920499, 884780, 842920>>, <<329734, 250008, 168547, 85916, 2689>>, <<-616255, -679669, -738366, -791939, -840015>>, <<-995662, -984462, -966430, -941690, -910414>>,
   <<-459663, -384146, -305962, -225655, -143782>>, <<498948, 569352, 635805, 697845, 755041>>, <<998828, 999390, 993016, 979749, 959683>>, <<580390, 510593, 437252, 360876, 281996>>,
   <<-371656, -447641, -520520, -589785, -654957>>, <<-982004, -994317, -999728, -998201, -989746>>, <<-689502, -626822, -559792, -488876, -414568>>, <<236924, 316969, 394814, 469919, 541762>>,
   <<945523, 969340, 986429, 996672, 999998>>, <<784812, 730504, 671125, 607089, 538840>>, <<-97452, -179955, -261209, -340649, -417726>>, <<-890120, -924964, -953389, -975197, -990237>>,
   <<-864416, -819566, -769029, -713154, -652329>>, <<-43972, 39337, 122373, 204559, 285326>>, <<816899, 862073, 901265, 934201, 960654>>, <<926716, 892223, 851537, 804942, 752760>>,
   <<184515, 102067, 18910, -64377, -147218>>, <<-727329, -781930, -831104, -874509, -911845>>, <<-970470, -947024, -917005, -880621, -838126>>, <<-321366, -241429, -159817, -77095, 6162>>,
   <<623200, 686134, 744306, 797312, 844784>>, <<994799, 982868, 964117, 938673, 906715>>, <<451783, 375958, 297523, 217023, 135016>>, <<-506600, -576607, -642613, -704158, -760816>>,
   <<-999218, -999043, -991933, -977940, -957159>>, <<-573160, -502963, -429275, -352608, -273494>>, <<379858, 455538, 528056, 596909, 661619>>, <<983636, 995219, 999895, 997630, 988442>>,
   <<683063, 619900, 552434, 481135, 406496>>, <<-245515, -325353, -402932, -477715, -549182>>, <<-948369, -971478, -987845, -997356, -999944>>, <<-779297, -724431, -664538, -600033, -531363>>,
   <<106257, 188654, 269741, 348957, 425750>>, <<894118, 928291, 956022, 977117, 991431>>, <<859930, 814461, 763339, 706920, 645594>>, <<35127, -48181, -131154, -213217, -293800>>,
   <<-821973, -866526, -905065, -937323, -963075>>, <<-923355, -888192, -846864, -799659, -746905>>, <<-175809, -93259, -10061, 73207, 155966>>, <<733374, 787416, 835992, 878767, 915442>>,
   <<968296, 944143, 913437, 876392, 833264>>, <<312971, 232829, 151072, 68266, -15014>>, <<-630099, -692547, -750189, -802624, -849488>>, <<-993859, -981200, -961730, -935586, -902948>>,
   <<-443870, -367742, -289061, -208375, -126242>>, <<514211, 583816, 649368, 710414, 766530>>, <<999528, 998615, 990771, 976051, 954557>>, <<565883, 495292, 421263, 344311, 264968>>,
   <<-388032, -463401, -535553, -603988, -668231>>, <<-985193, -996045, -999985, -996983, -987063>>, <<-676573, -612931, -545036, -473357, -398394>>, <<254085, 333709, 411016, 485471, 556556>>,
   <<951138, 973538, 989181, 997959, 999811>>, <<773718, 718300, 657897, 592928, 523843>>, <<-115055, -197340, -278255, -357239, -433744>>, <<-898048, -931547, -958581, -978962, -992549>>,
   <<-855380, -809295, -757593, -700633, -638810>>, <<-26280, 57019, 139923, 221855, 302248>>, <<826981, 870909, 908793, 940370, 965420>>, <<919919, 884089, 842123, 794312, 740989>>,
   <<167088, 84441, 1208, -82033, -164704>>, <<-739364, -792842, -840818, -882958, -918969>>, <<-966048, -941190, -909800, -872096, -828339>>, <<-304553, -224213, -142317, -59434, 23862>>,
   <<636947, 698904, 756011, 807871, 854124>>, <<992840, 979452, 959266, 932422, 899108>>, <<435920, 359495, 280576, 199709, 117455>>, <<-521783, -590980, -656075, -716617, -772185>>,
   <<-999762, -998111, -989534, -974089, -951883>>, <<-558565, -487584, -413220, -335988, -256424>>, <<396174, 471225, 543006, 611018, 674789>>, <<986671, 996792, 999994, 996256, 985604>>,
   <<670027, 605912, 537592, 465541, 390259>>, <<-262637, -342041, -419070, -493191, -563889>>, <<-953835, -975524, -990442, -998486, -999600>>, <<-768081, -712115, -651206, -585778, -516284>>,
   <<123842, 206008, 286745, 365491, 441701>>, <<901905, 934728, 961064, 980729, 993588>>, <<850760, 804063, 751784, 694289, 631974>>, <<17430, -65855, -148682, -230478, -310674>>,
   <<-831926, -875226, -912452, -943345, -967690>>, <<-916413, -879919, -837318, -788905, -735017>>, <<-158355, -75619, 7642, 90850, 173427>>, <<745294, 798204, 845575, 887077, 922423>>,
   <<963723, 938162, 906090, 867729, 823347>>, <<296109, 215577, 133549, 50595, -32711>>, <<-643746, -705209, -761776, -813057, -858695>>, <<-991745, -977629, -956729, -929188, -895199>>,
   <<-427938, -351223, -272070, -191029, -108662>>, <<529312, 598096, 662729, 722761, 777778>>, <<999915, 997528, 988217, 972048, 949132>>, <<551200, 479836, 405143, 327637, 247858>>,
   <<-404286, -479015, -550418, -618002, -681296>>, <<-988074, -997462, -999928, -995453, -984070>>, <<-663431, -598848, -530109, -457690, -382095>>, <<271166, 350344, 427089, 500871, 571176>>,
   <<956455, 977431, 991623, 998933, 999310>>, <<762382, 705872, 644463, 578580, 508682>>, <<-132621, -214663, -295214, -373717, -449626>>, <<-905694, -937838, -963473, -982421, -994551>>,
   <<-846076, -798770, -745919, -687892, -625090>>, <<-8581, 74683, 157428, 239081, 319074>>, <<836804, 879472, 916037, 946244, 969883>>, <<912834, 875678, 832445, 783434, 728985>>,
   <<149608, 66789, -16494, -99662, -182139>>, <<-751167, -803506, -850268, -891129, -925806>>, <<-961323, -935062, -902311, -863297, -818292>>, <<-287644, -206927, -124773, -41754, 41555>>,
   <<650493, 711455, 767480, 818177, 863196>>, <<990570, 975728, 954115, 925879, 891218>>, <<419920, 342921, 263541, 182332, 99858>>, <<-536802, -605167, -669332, -728851, -783312>>,
   <<-999992, -996867, -986824, -969932, -946309>>, <<-543794, -472053, -397036, -319263, -239274>>, <<412365, 486765, 557786, 624935, 687748>>, <<989397, 998052, 999781, 994570, 982457>>,
   <<656782, 591735, 522582, 449801, 373899>>, <<-279676, -358621, -435077, -508513, -578420>>, <<-959002, -979263, -992728, -999303, -998943>>, <<-756626, -699576, -637670, -571339, -501043>>,
   <<141388, 223298, 303658, 381911, 457513>>, <<909410, 940872, 965805, 984034, 995433>>, <<841324, 793412, 739994, 681440, 618156>>, <<-272, -83508, -166164, -247667, -327452>>,
   <<-841618, -883652, -919552, -949071, -972002>>, <<-909185, -871371, -827509, -777903, -722899>>, <<-140852, -57956, 25342, 108464, 190834>>, <<756979, 808743, 854893, 895110, 929114>>,
   <<958847, 931887, 898459, 858795, 813171>>, <<279154, 198258, 115985, 32908, -50398>>, <<-657192, -717649, -773125, -823235, -867632>>, <<-989319, -973753, -951428, -922500, -887169>>,
   <<-411872, -334594, -254993, -173623, -91048>>, <<544248, 612189, 675881, 734882, 788783>>, <<999988, 996127, 985353, 967739, 943409>>, <<536343, 464230, 388895, 310861, 230669>>,
   <<-420414, -494478, -565111, -631822, -694147>>, <<-990645, -998566, -999557, -993611, -980769>>, <<-650082, -584578, -515016, -441879, -365676>>, <<288163, 366869, 443029, 516114, 585617>>,
   <<961472, 981017, 993754, 999594, 998496>>, <<750808, 693222, 630826, 564051, 493362>>, <<-150146, -231918, -312081, -390078, -465367>>, <<-913056, -943835, -968063, -985572, -996240>>,
   <<-836508, -787994, -734012, -674936, -611175>>, <<9122, 92324, 174885, 256232, 335801>>, <<846364, 887760, 922993, 951821, 974043>>, <<905463, 866993, 822506, 772310, 716754>>,
   <<132082, 49116, -34191, -117260, -199516>>, <<-762734, -813918, -859452, -899022, -932352>>, <<-956297, -928640, -894538, -854228, -807988>>, <<-270645, -189575, -107190, -24061, 59236>>,
   <<663836, 723784, 778708, 828227, 871998>>, <<987989, 971699, 948665, 919046, 883049>>, <<403789, 326238, 246423, 164898, 82228>>, <<-551653, -619165, -682379, -740857, -794193>>,
   <<-999909, -995311, -983806, -965472, -940438>>, <<-528853, -456373, -380726, -302437, -222049>>, <<428427, 502151, 572390, 638657, 700491>>, <<991813, 999000, 999254, 992572, 979002>>,
   <<643330, 577372, 507407, 433921, 357423>>, <<-296628, -375090, -450948, -523676, -592770>>, <<-963868, -982696, -994704, -999808, -997973>>, <<-744933, -686817, -623934, -556721, -485645>>,
   <<158890, 240518, 320477, 398211, 473182>>, <<916630, 946721, 970243, 987030, 996967>>, <<831624, 782513, 727971, 668377, 604145>>, <<-17974, -101135, -183594, -264779, -344126>>,
   <<-851047, -891800, -926364, -954499, -976009>>, <<-901672, -862549, -817440, -766658, -710554>>, <<-123304, -40275, 43034, 126045, 208180>>, <<768428, 819027, 863943, 902862, 935515>>,
   <<953671, 925319, 890546, 849591, 802741>>, <<262113, 180876, 98385, 15210, -68070>>, <<-670431, -729864, -784231, -833156, -876298>>, <<-986584, -969571, -945829, -915523, -878862>>,
   <<-395677, -317859, -237836, -156163, -73405>>, <<559014, 626090, 688822, 746772, 799540>>, <<999749, 994415, 982180, 963128, 937391>>, <<521319, 448479, 372526, 293987, 213409>>,
   <<-436409, -509787, -579627, -645444, -706781>>, <<-992905, -999358, -998874, -991457, -977160>>, <<-636529, -570124, -499761, -425930, -349143>>, <<305068, 383279, 458829, 531195, 599874>>,
   <<966187, 984296, 995574, 999941, 997369>>, <<738997, 680356, 616992, 549346, 477887>>, <<-167624, -249101, -328850, -406316, -480962>>, <<-920133, -949536, -972349, -988413, -997618>>,
   <<-826677, -776972, -721875, -661768, -597068>>, <<26822, 109936, 192287, 273303, 352422>>, <<855660, 895769, 929661, 957100, 977897>>, <<897808, 858036, 812309, 760944, 704297>>,
   <<114515, 31428, -51877, -134822, -216831>>, <<-774063, -824075, -868367, -906633, -938606>>, <<-950971, -921928, -886485, -844891, -797432>>, <<-253561, -172165, -89573, -6360, 76897>>,
   <<676971, 735885, 789692, 838017, 880527>>, <<985099, 967365, 942917, 911925, 874604>>, <<387531, 309454, 229229, 147413, 64574>>, <<-566332, -632968, -695212, -752631, -804826>>,
   <<-999512, -993443, -980479, -960709, -934272>>, <<-513746, -440551, -364298, -285517, -204754>>, <<444355, 517381, 586816, 652178, 713014>>, <<993918, 999635, 998414, 990263, 975240>>,
   <<629677, 562828, 492074, 417904, 340834>>, <<-313487, -391440, -466677, -538674, -606933>>, <<-968433, -985821, -996367, -999999, -996689>>, <<-733006, -673843, -610003, -541929, -470094>>,
   <<176342, 257663, 337195, 414387, 488703>>, <<923562, 952274, 974377, 989717, 998188>>, <<821663, 771369, 715721, 655106, 589944>>, <<-35670, -118730, -200966, -281808, -360693>>,
   <<-860208, -899669, -932886, -959629, -979711>>, <<-893876, -853457, -807115, -755172, -697987>>, <<-105718, -22581, 60713, 143586, 225462>>, <<779635, 829056, 872722, 910331, 941622>>,
   <<948195, 918462, 882354, 840122, 792059>>, <<244988, 163438, 80753, -2492, -85720>>, <<-683460, -741850, -795092, -842815, -884689>>, <<-983539, -965085, -939934, -908258, -870279>>,
   <<-379357, -301026, -220605, -138653, -55739>>, <<573604, 639795, 701546, 758428, 810047>>, <<999195, 992391, 978699, 958214, 931079>>, <<506131, 432587, 356040, 277022, 196081>>,
   <<-452268, -524936, -593961, -658864, -719193>>, <<-994855, -999836, -997877, -988993, -973245>>, <<-622777, -555491, -484350, -409847, -332500>>, <<321879, 399569, 474486, 546110, 613943>>,
   <<970600, 987267, 997081, 999976, 995930>>, <<726956, 667276, 602964, 534468, 462263>>, <<-185049, -266206, -345516, -422427, -496407>>, <<-926921, -954940, -976331, -990945, -998683>>,
   <<-816587, -765706, -709512, -648393, -582775>>, <<44513, 127513, 209628, 290288, 368933>>, <<864687, 903497, 936037, 962080, 981445>>, <<889871, 848810, 801857, 749339, 691620>>,
   <<96911, 13730, -69547, -152341, -234078>>, <<-785149, -833974, -877010, -913960, -944566>>, <<-945347, -914926, -878155, -835289, -786625>>, <<-236398, -154700, -71929, 11342, 94535>>,
   <<689894, 747756, 800428, 847545, 888780>>, <<981900, 962728, 936874, 904518, 865884>>, <<371152, 292572, 211962, 129881, 46898>>, <<-580833, -646574, -707827, -764169, -815206>>,
   <<-998802, -991263, -976844, -955646, -927814>>, <<-498478, -424590, -347755, -268507, -187395>>, <<460144, 532448, 601058, 665495, 725314>>, <<995712, 999956, 997261, 987644, 971172>>,
   <<615826, 548108, 476586, 401757, 324139>>, <<-330247, -407668, -482260, -553504, -620907>>, <<-972694, -988637, -997719, -999876, -995094>>, <<-720850, -660658, -595880, -526967, -454397>>,
   <<193739, 274727, 353807, 430433, 504070>>, <<930205, 957528, 978206, 992094, 999097>>, <<811444, 759982, 703246, 641628, 575558>>, <<-53355, -136288, -218276, -298748, -377147>>,
   <<-869100, -907257, -939116, -964457, -983105>>, <<-885799, -844098, -796538, -743450, -685201>>, <<-88099, -4880, 78373, 161082, 242673>>, <<790599, 838824, 881228, 917515, 947434>>,
   <<942423, 911317, 873885, 830388, 781129>>, <<227788, 145948, 63096, -20194, -103344>>, <<-696275, -753605, -805703, -852210, -892803>>, <<-980186, -960297, -933744, -900709, -861423>>,
   <<-362919, -284098, -203305, -121101, -38056>>, <<588014, 653300, 714051, 769847, 820299>>, <<998329, 990056, 974911, 953000, 924475>>, <<490785, 416559, 339442, 259969, 178692>>,
   <<-467985, -539921, -608109, -672077, -731380>>, <<-996492, -1000000, -996568, -986219, -969025>>, <<-608829, -540685, -468787, -393636, -315753>>, <<338588, 415734, 489994, 560853, 627820>>,
   <<974709, 989928, 998276, 999696, 994178>>, <<714686, 653986, 588748, 519423, 446493>>, <<-202416, -283228, -362073, -438406, -511696>>, <<-933418, -960044, -980006, -993167, -999435>>,
   <<-806241, -754201, -696926, -634815, -568298>>, <<62191, 145051, 226904, 307182, 385329>>, <<873444, 910943, 942119, 966757, 984686>>, <<881656, 839318, 791154, 737500, 678727>>,
   <<79278, -3972, -87195, -169812, -251251>>, <<-795989, -843611, -885378, -921000, -950230>>, <<-939427, -907638, -869549, -825425, -775572>>, <<-219161, -137187, -54261, 29041, 112142>>,
   <<702600, 759392, 810914, 856807, 896754>>, <<978394, 957790, 930538, 896828, 856893>>, <<354656, 275599, 194629, 112309, 29209>>, <<-595151, -659976, -720221, -775467, -825331>>,
   <<-997780, -988773, -972904, -950282, -921065>>, <<-483055, -408497, -331104, -251413, -169977>>, <<475788, 547349, 615111, 678604, 737387>>, <<997193, 999964, 995795, 984715, 966800>>,
   <<601783, 533216, 460949, 385483, 307342>>, <<-346904, -423769, -497692, -568160, -634686>>, <<-976650, -991143, -998758, -999440, -993187>>, <<-708468, -647266, -581571, -511840, -438557>>,
   <<211075, 291704, 370309, 446343, 519280>>, <<936557, 962482, 981728, 994160, 999692>>, <<800972, 748358, 690551, 627950, 560992>>, <<-71023, -153804, -235516, -315595, -393482>>,
   <<-877720, -914559, -945051, -968984, -986191>>, <<-877446, -834474, -785711, -731494, -672201>>, <<-70452, 12823, 96008, 178527, 259808>>, <<801314, 848330, 889457, 924411, 952949>>,
   <<936356, 903886, 865143, 820395, 769954>>, <<210515, 128413, 45420, -37889, -120934>>, <<-708872, -765122, -816062, -861338, -900636>>, <<-976526, -955209, -927261, -892878, -852298>>,
   <<-346367, -267081, -185941, -103510, -20361>>, <<602240, 666599, 726332, 781024, 830295>>, <<997150, 987411, 970818, 947488, 917581>>, <<475284, 400401, 322738, 242835, 161247>>,
   <<-483556, -554736, -622067, -685079, -743338>>, <<-997818, -999852, -994946, -983136, -964502>>, <<-594691, -525709, -453077, -377302, -298908>>, <<355191, 431768, 505348, 575421, 641500>>,
   <<978512, 992279, 999159, 999104, 992115>>, <<702193, 640492, 574347, 504215, 430584>>, <<-219720, -300160, -378517, -454247, -526825>>, <<-939623, -964847, -983375, -995077, -999874>>,
   <<-795642, -742459, -684122, -621038, -553643>>, <<79849, 162543, 244108, 323980, 401603>>, <<881926, 918103, 947907, 971132, 987617>>, <<873165, 829563, 780203, 725429, 665620>>,
   <<61619, -21674, -104816, -187230, -268346>>, <<-806579, -852984, -893468, -927752, -955596>>, <<-933213, -900065, -860671, -815303, -764276>>, <<-201855, -119631, -36577, 46731, 129715>>,
   <<715087, 770791, 821145, 865800, 904447>>, <<974581, 952551, 923910, 888856, 847634>>, <<338049, 258539, 177235, 94701, 11510>>, <<-609284, -673172, -732389, -786522, -835197>>,
   <<-996444, -985973, -968658, -944621, -914028>>, <<-467479, -392275, -314349, -234240, -152506>>, <<491284, 562078, 628971, 691500, 749228>>, <<998362, 999659, 994018, 981477, 962125>>,
   <<587551, 518157, 445168, 369089, 290448>>, <<-363453, -439736, -512967, -582639, -648266>>, <<-980300, -993339, -999483, -998691, -990968>>, <<-695864, -633671, -567079, -496552, -422579>>,
   <<228345, 308591, 386694, 462114, 534327>>, <<942615, 967135, 984943, 995915, 999974>>, <<790248, 736499, 677639, 614075, 546250>>, <<-88669, -171271, -252683, -332342, -409695>>,
   <<-886065, -921576, -950690, -973207, -988968>>, <<-868817, -824589, -774637, -719309, -658989>>, <<-52783, 30521, 113613, 195917, 276861>>, <<811779, 857569, 897408, 931018, 958166>>,
   <<929995, 896172, 856129, 810145, 758537>>, <<193177, 110838, 27729, -55572, -138488>>, <<-721247, -776401, -826166, -870197, -908188>>, <<-972560, -949820, -920488, -884767, -842905>>,
   <<-329707, -249980, -168518, -85887, -2660>>, <<616277, 679690, 738386, 791957, 840031>>, <<995658, 984456, 966421, 941678, 910400>>, <<459635, 384117, 305933, 225625, 143751>>,
   <<-498975, -569378, -635829, -697867, -755062>>, <<-998830, -999390, -993013, -979744, -959676>>, <<-580366, -510568, -437226, -360849, -281968>>, <<371683, 447667, 520544, 589808, 654979>>,
   <<982009, 994319, 999728, 998198, 989741>>, <<689479, 626798, 559766, 488849, 414539>>, <<-236955, -316999, -394843, -469947, -541789>>, <<-945534, -969348, -986435, -996676, -999999>>,
   <<-784794, -730484, -671104, -607066, -538815>>, <<97481, 179984, 261237, 340677, 417752>>, <<890133, 924975, 953397, 975203, 990240>>, <<864399, 819548, 769008, 713131, 652305>>,
   <<43941, -39368, -122404, -204590, -285356>>, <<-816917, -862090, -901279, -934213, -960663>>, <<-926706, -892210, -851523, -804925, -752741>>, <<-184486, -102038, -18881, 64407, 147247>>,
   <<727349, 781948, 831119, 874523, 911856>>, <<970462, 947013, 916992, 880606, 838109>>, <<321336, 241399, 159786, 77064, -6193>>, <<-623225, -686157, -744327, -797331, -844801>>,
   <<-994797, -982864, -964110, -938664, -906704>>, <<-451757, -375931, -297495, -216994, -134987>>, <<506625, 576631, 642635, 704179, 760835>>, <<999218, 999040, 991929, 977932, 957149>>,
   <<573134, 502936, 429247, 352579, 273464>>, <<-379887, -455566, -528083, -596934, -661643>>, <<-983643, -995223, -999896, -997629, -988439>>, <<-683042, -619877, -552410, -481109, -406469>>,
   <<245544, 325380, 402959, 477740, 549206>>, <<948377, 971484, 987849, 997357, 999943>>, <<779277, 724410, 664515, 600008, 531337>>, <<-106288, -188684, -269771, -348986, -425779>>,
   <<-894132, -928303, -956031, -977124, -991436>>, <<-859916, -814445, -763321, -706899, -645572>>, <<-35098, 48210, 131183, 213245, 293827>>, <<821989, 866540, 905077, 937333, 963082>>,
   <<923342, 888177, 846847, 799640, 746883>>, <<175778, 93227, 10030, -73238, -155997>>, <<-733396, -787435, -836010, -878782, -915455>>, <<-968290, -944134, -913426, -876378, -833248>>,
   <<-312943, -232801, -151043, -68237, 15043>>, <<630122, 692568, 750208, 802641, 849503>>, <<993855, 981193, 961721, 935574, 902934>>, <<443842, 367713, 289032, 208344, 126211>>,
   <<-514238, -583841, -649392, -710437, -766550>>, <<-999530, -998615, -990768, -976046, -954549>>, <<-565860, -495267, -421237, -344283, -264940>>, <<388059, 463426, 535577, 604011, 668253>>,
   <<985197, 996047, 999984, 996980, 987057>>, <<676550, 612906, 545009, 473330, 398365>>, <<-254115, -333738, -411045, -485498, -556582>>, <<-951148, -973546, -989187, -997962, -999811>>,
   <<-773700, -718280, -657875, -592904, -523818>>, <<115084, 197368, 278283, 357266, 433770>>, <<898060, 931557, 958589, 978967, 992552>>, <<855363, 809276, 757572, 700610, 638786>>,
   <<26249, -57050, -139953, -221885, -302278>>, <<-826999, -870925, -908807, -940381, -965429>>, <<-919908, -884076, -842108, -794295, -740969>>, <<-167059, -84412, -1179, 82062, 164733>>,
   <<739383, 792859, 840833, 882971, 918980>>, <<966039, 941179, 909787, 872080, 828321>>, <<304523, 224183, 142286, 59403, -23893>>, <<-636971, -698927, -756032, -807890, -854141>>,
   <<-992837, -979447, -959258, -932413, -899095>>, <<-435894, -359468, -280548, -199680, -117426>>, <<521808, 591003, 656097, 716637, 772203>>, <<999761, 998109, 989529, 974081, 951873>>,
   <<558539, 487557, 413192, 335959, 256394>>, <<-396202, -471253, -543032, -611043, -674812>>, <<-986677, -996795, -999995, -996255, -985600>>, <<-670006, -605889, -537568, -465515, -390232>>,
   <<262665, 342068, 419097, 493216, 563913>>, <<953843, 975529, 990445, 998487, 999598>>, <<768061, 712093, 651182, 585752, 516257>>, <<-123873, -206039, -286775, -365520, -441729>>,
   <<-901919, -934740, -961073, -980736, -993592>>, <<-850746, -804046, -751766, -694268, -631952>>, <<-17401, 65884, 148711, 230506, 310702>>, <<831942, 875240, 912463, 943354, 967697>>,
   <<916400, 879904, 837300, 788885, 734995>>, <<158325, 75588, -7673, -90881, -173458>>, <<-745315, -798223, -845592, -887092, -922435>>, <<-963715, -938152, -906078, -867716, -823330>>,
   <<-296081, -215549, -133521, -50566, 32740>>, <<643768, 705229, 761795, 813074, 858709>>, <<991740, 977622, 956719, 929176, 895184>>, <<427910, 351194, 272040, 190998, 108631>>,
   <<-529339, -598121, -662752, -722783, -777798>>, <<-999916, -997526, -988213, -972042, -949123>>, <<-551176, -479811, -405116, -327610, -247829>>, <<404313, 479040, 550442, 618024, 681317>>,
   <<988078, 997463, 999926, 995449, 984064>>, <<663408, 598823, 530082, 457662, 382066>>, <<-271196, -350373, -427118, -500898, -571202>>, <<-956464, -977438, -991628, -998935, -999310>>,
   <<-762364, -705852, -644440, -578557, -508657>>, <<132650, 214691, 295242, 373744, 449652>>, <<905706, 937847, 963480, 982425, 994553>>, <<846059, 798751, 745898, 687869, 625066>>,
   <<8549, -74714, -157459, -239111, -319104>>, <<-836821, -879488, -916050, -946254, -969892>>, <<-912823, -875665, -832429, -783416, -728966>>, <<-149580, -66760, 16523, 99691, 182167>>,
   <<751186, 803523, 850283, 891142, 925816>>, <<961314, 935050, 902297, 863281, 818274>>, <<287614, 206896, 124742, 41723, -41587>>, <<-650517, -711478, -767500, -818196, -863213>>,
   <<-990567, -975723, -954107, -925869, -891205>>, <<-419894, -342893, -263513, -182303, -99829>>, <<536827, 605190, 669353, 728871, 783330>>, <<999991, 996864, 986819, 969924, 946298>>,
   <<543768, 472025, 397007, 319233, 239244>>, <<-412394, -486792, -557812, -624960, -687771>>, <<-989403, -998055, -999781, -994568, -982452>>, <<-656760, -591712, -522557, -449775, -373872>>,
   <<279704, 358648, 435103, 508538, 578444>>, <<959009, 979268, 992731, 999304, 998941>>, <<756605, 699553, 637646, 571313, 501016>>, <<-141419, -223329, -303688, -381940, -457541>>,
   <<-909423, -940883, -965813, -984040, -995437>>, <<-841309, -793395, -739975, -681419, -618133>>, <<301, 83537, 166193, 247696, 327479>>, <<841633, 883665, 919563, 949079, 972008>>,
   <<909171, 871355, 827491, 777883, 722877>>, <<140821, 57925, -25373, -108495, -190864>>, <<-757000, -808761, -854910, -895124, -929127>>, <<-958839, -931877, -898446, -858781, -813154>>,
   <<-279127, -198229, -115956, -32878, 50428>>, <<657213, 717669, 773143, 823252, 867646>>, <<989314, 973745, 951418, 922487, 887155>>, <<411843, 334564, 254963, 173592, 91017>>,
   <<-544275, -612214, -675904, -734903, -788802>>, <<-999989, -996126, -985348, -967733, -943400>>, <<-536319, -464205, -388868, -310833, -230641>>, <<420440, 494504, 565135, 631844, 694168>>,
   <<990648, 998567, 999555, 993607, 980762>>, <<650058, 584552, 514989, 441851, 365647>>, <<-288192, -366898, -443057, -516141, -585642>>, <<-961481, -981024, -993758, -999596, -998495>>,
   <<-750789, -693202, -630804, -564028, -493337>>, <<150175, 231947, 312109, 390104, 465393>>, <<913068, 943844, 968069, 985576, 996242>>, <<836490, 787975, 733991, 674913, 611150>>,
   <<-9153, -92355, -174916, -256262, -335830>>, <<-846381, -887775, -923006, -951831, -974051>>, <<-905451, -866979, -822489, -772292, -716734>>, <<-132053, -49087, 34220, 117289, 199544>>,
   <<762753, 813934, 859467, 899034, 932362>>, <<956287, 928628, 894524, 854211, 807970>>, <<270615, 189545, 107159, 24030, -59267>>, <<-663860, -723805, -778728, -828245, -872014>>,
   <<-987986, -971693, -948656, -919035, -883036>>, <<-403762, -326211, -246395, -164869, -82199>>, <<551678, 619188, 682400, 740876, 794211>>, <<999907, 995307, 983799, 965463, 940427>>,
   <<528826, 456346, 380698, 302407, 222018>>, <<-428456, -502179, -572416, -638681, -700513>>, <<-991818, -999002, -999254, -992569, -978996>>, <<-643308, -577349, -507382, -433895, -357395>>,
   <<296656, 375116, 450973, 523701, 592793>>, <<963875, 982701, 994706, 999807, 997970>>, <<744912, 686794, 623910, 556695, 485617>>, <<-158921, -240548, -320506, -398240, -473210>>,
   <<-916643, -946732, -970251, -987036, -996970>>, <<-831608, -782495, -727952, -668356, -604122>>, <<18003, 101164, 183623, 264807, 344154>>, <<851061, 891813, 926375, 954507, 976015>>,
   <<901658, 862533, 817422, 766637, 710532>>, <<123273, 40244, -43065, -126076, -208211>>, <<-768448, -819046, -863959, -902876, -935526>>, <<-953662, -925309, -890533, -849577, -802724>>,
   <<-262084, -180848, -98356, -15181, 68099>>, <<670452, 729884, 784249, 833172, 876311>>, <<986578, 969563, 945818, 915509, 878847>>, <<395648, 317830, 237806, 156132, 73374>>,
   <<-559040, -626115, -688844, -746793, -799559>>, <<-999749, -994413, -982175, -963120, -937381>>, <<-521294, -448453, -372499, -293960, -213380>>, <<436435, 509812, 579651, 645466, 706801>>,
   <<992908, 999358, 998871, 991452, 977152>>, <<636505, 570098, 499734, 425902, 349114>>, <<-305098, -383308, -458857, -531221, -599899>>, <<-966196, -984302, -995577, -999943, -997368>>,
   <<-738978, -680335, -616969, -549322, -477862>>, <<167652, 249129, 328877, 406343, 480988>>, <<920144, 949544, 972355, 988417, 997619>>, <<826659, 776952, 721854, 661745, 597043>>,
   <<-26853, -109967, -192317, -273333, -352452>>, <<-855677, -895783, -929673, -957110, -977905>>, <<-897795, -858021, -812292, -760925, -704277>>, <<-114486, -31399, 51906, 134850, 216859>>,
   <<774081, 824091, 868381, 906645, 938616>>, <<950961, 921915, 886470, 844873, 797413>>, <<253531, 172134, 89542, 6329, -76928>>, <<-676994, -735906, -789711, -838035, -880542>>,
   <<-985095, -967359, -942908, -911914, -874590>>, <<-387504, -309426, -229200, -147384, -64545>>, <<566356, 632991, 695233, 752650, 804843>>, <<999510, 993438, 980472, 960700, 934261>>,
   <<513719, 440523, 364269, 285487, 204723>>, <<-444383, -517408, -586841, -652202, -713036>>, <<-993922, -999637, -998413, -990260, -975234>>, <<-629654, -562805, -492049, -417878, -340807>>,
   <<313515, 391467, 466702, 538699, 606956>>, <<968439, 985825, 996369, 999998, 996686>>, <<732985, 673820, 609978, 541903, 470067>>, <<-176373, -257693, -337224, -414415, -488730>>,
   <<-923575, -952284, -974385, -989723, -998191>>, <<-821647, -771350, -715701, -655084, -589920>>, <<35699, 118759, 200995, 281835, 360720>>, <<860223, 899681, 932896, 959636, 979716>>,
   <<893861, 853440, 807097, 755151, 697965>>, <<105687, 22550, -60744, -143617, -225492>>, <<-779655, -829074, -872738, -910344, -941633>>, <<-948187, -918451, -882340, -840106, -792041>>,
   <<-244960, -163409, -80724, 2521, 85749>>, <<683481, 741870, 795109, 842830, 884702>>, <<983533, 965077, 939922, 908245, 870263>>, <<379328, 300996, 220575, 138622, 55708>>,
   <<-573629, -639819, -701569, -758449, -810065>>, <<-999195, -992388, -978694, -958206, -931069>>, <<-506106, -432560, -356013, -276994, -196052>>, <<452294, 524961, 593984, 658885, 719213>>,
   <<994857, 999835, 997874, 988988, 973237>>, <<622752, 555465, 484323, 409819, 332471>>, <<-321908, -399598, -474513, -546136, -613968>>, <<-970608, -987272, -997085, -999976, -995928>>,
   <<-726936, -667254, -602941, -534444, -462237>>, <<185077, 266234, 345543, 422454, 496432>>, <<926931, 954948, 976336, 990949, 998683>>, <<816568, 765686, 709490, 648369, 582749>>,
   <<-44544, -127544, -209659, -290318, -368962>>, <<-864703, -903511, -936048, -962089, -981452>>, <<-889859, -848795, -801840, -749320, -691600>>, <<-96882, -13701, 69576, 152370, 234106>>,
   <<785167, 833989, 877024, 913971, 944575>>, <<945337, 914913, 878139, 835271, 786606>>, <<236368, 154669, 71897, -11374, -94566>>, <<-689917, -747777, -800447, -847562, -888794>>,
   <<-981896, -962721, -936865, -904506, -865870>>, <<-371125, -292544, -211934, -129852, -46869>>, <<580856, 646596, 707848, 764187, 815222>>, <<998800, 991258, 976837, 955636, 927802>>,
   <<498451, 424562, 347726, 268477, 187364>>, <<-460172, -532475, -601083, -665519, -725336>>, <<-995715, -999957, -997259, -987640, -971166>>, <<-615803, -548084, -476561, -401730, -324111>>,
   <<330275, 407695, 482285, 553528, 620930>>, <<972700, 988641, 997720, 999875, 995090>>, <<720828, 660634, 595855, 526941, 454369>>, <<-193770, -274757, -353837, -430461, -504097>>,
   <<-930217, -957538, -978213, -992099, -999099>>, <<-811428, -759964, -703225, -641606, -575534>>, <<53384, 136317, 218304, 298776, 377174>>, <<869114, 907268, 939125, 964464, 983110>>,
   <<885784, 844081, 796519, 743428, 685178>>, <<88068, 4849, -78404, -161113, -242703>>, <<-790618, -838841, -881243, -917528, -947445>>, <<-942414, -911305, -873871, -830373, -781111>>,
   <<-227759, -145920, -63067, 20223, 103373>>, <<696296, 753623, 805720, 852225, 892815>>, <<980179, 960288, 933732, 900695, 861407>>, <<362890, 284068, 203274, 121070, 38025>>,
   <<-588039, -653323, -714073, -769867, -820318>>, <<-998328, -990053, -974906, -952992, -924464>>, <<-490759, -416532, -339415, -259941, -178663>>, <<468011, 539945, 608132, 672098, 731400>>,
   <<996494, 999999, 996564, 986213, 969017>>, <<608804, 540658, 468760, 393608, 315724>>, <<-338618, -415762, -490021, -560879, -627844>>, <<-974717, -989933, -998279, -999697, -994176>>,
   <<-714666, -653965, -588724, -519398, -446467>>, <<202445, 283255, 362100, 438432, 511721>>, <<933428, 960051, 980011, 993170, 999435>>, <<806222, 754180, 696904, 634791, 568272>>,
   <<-62222, -145081, -226934, -307212, -385358>>, <<-873459, -910956, -942130, -966766, -984692>>, <<-881643, -839302, -791137, -737480, -678706>>, <<-79249, 4002, 87224, 169841, 251279>>,
   <<796006, 843626, 885391, 921011, 950238>>, <<939416, 907624, 869533, 825407, 775552>>, <<219131, 137156, 54230, -29073, -112173>>, <<-702623, -759413, -810932, -856823, -896768>>,
   <<-978389, -957782, -930528, -896815, -856879>>, <<-354629, -275571, -194601, -112280, -29180>>, <<595175, 659998, 720241, 775485, 825347>>, <<997777, 988768, 972896, 950272, 921053>>,
   <<483027, 408468, 331074, 251383, 169946>>, <<-475816, -547375, -615136, -678627, -737408>>, <<-997196, -999965, -995793, -984711, -966793>>, <<-601760, -533192, -460924, -385456, -307314>>,
   <<346932, 423795, 497717, 568184, 634708>>, <<976655, 991146, 998758, 999438, 993182>>, <<708446, 647242, 581546, 511813, 438528>>, <<-211106, -291734, -370338, -446371, -519307>>,
   <<-936568, -962492, -981735, -994164, -999694>>, <<-800955, -748339, -690530, -627928, -560968>>, <<71052, 153832, 235545, 315622, 393509>>, <<877734, 914571, 945060, 968990, 986195>>,
   <<877430, 834456, 785691, 731473, 672177>>, <<70421, -12854, -96039, -178558, -259838>>, <<-801334, -848347, -889472, -924424, -952960>>, <<-936346, -903874, -865129, -820379, -769935>>,
   <<-210487, -128384, -45391, 37918, 120963>>, <<708893, 765141, 816079, 861353, 900649>>, <<976519, 955199, 927249, 892863, 852281>>, <<346338, 267051, 185910, 103479, 20330>>,
   <<-602265, -666623, -726354, -781044, -830313>>, <<-997149, -987407, -970812, -947479, -917570>>, <<-475259, -400374, -322710, -242807, -161218>>, <<483581, 554760, 622089, 685100, 743357>>,
   <<997819, 999850, 994942, 983129, 964493>>, <<594666, 525682, 453050, 377273, 298878>>, <<-355221, -431796, -505375, -575447, -641524>>, <<-978519, -992284, -999161, -999104, -992112>>,
   <<-702172, -640470, -574323, -504190, -430557>>, <<219748, 300188, 378544, 454273, 526850>>, <<939633, 964854, 983379, 995079, 999873>>, <<795623, 742438, 684099, 621013, 553617>>,
   <<-79880, -162573, -244139, -324010, -401632>>, <<-881941, -918115, -947917, -971140, -987623>>, <<-873151, -829547, -780186, -725409, -665599>>, <<-61590, 21703, 104845, 187259, 268374>>,
   <<806596, 852999, 893481, 927762, 955604>>, <<933201, 900051, 860654, 815284, 764256>>, <<201825, 119600, 36546, -46762, -129746>>, <<-715109, -770811, -821163, -865817, -904461>>,
   <<-974575, -952543, -923899, -888843, -847619>>, <<-338022, -258511, -177207, -94672, -11481>>, <<609306, 673193, 732408, 786540, 835212>>, <<996441, 985967, 968650, 944610, 914014>>,
   <<467452, 392246, 314319, 234210, 152475>>, <<-491311, -562104, -628996, -691522, -749249>>, <<-998365, -999659, -994015, -981473, -962118>>, <<-587527, -518133, -445142, -369062, -290420>>,
   <<363480, 439762, 512992, 582662, 648288>>, <<980305, 993341, 999483, 998689, 990963>>, <<695842, 633646, 567054, 496525, 422551>>, <<-228376, -308620, -386723, -462142, -534353>>,
   <<-942626, -967143, -984949, -995918, -999976>>, <<-790231, -736480, -677618, -614053, -546226>>, <<88698, 171300, 252712, 332370, 409721>>, <<886078, 921586, 950699, 973212, 988972>>,
   <<868801, 824571, 774617, 719288, 658966>>, <<52752, -30552, -113644, -195947, -276891>>, <<-811798, -857586, -897422, -931030, -958176>>, <<-929985, -896159, -856115, -810128, -758519>>,
   <<-193149, -110809, -27700, 55601, 138516>>, <<721267, 776419, 826182, 870210, 908200>>, <<972552, 949810, 920475, 884752, 842888>>, <<329677, 249950, 168488, 85856, 2628>>,
   <<-616302, -679713, -738407, -791976, -840048>>, <<-995657, -984452, -966414, -941669, -910389>>, <<-459610, -384090, -305905, -225597, -143723>>, <<499000, 569402, 635851, 697888, 755081>>,
   <<998831, 999388, 993008, 979737, 959666>>, <<580341, 510541, 437198, 360820, 281938>>, <<-371712, -447695, -520571, -589834, -655003>>, <<-982015, -994323, -999730, -998198, -989738>>,
   <<-689458, -626775, -559742, -488824, -414513>>, <<236983, 317026, 394870, 469972, 541813>>, <<945543, 969355, 986439, 996677, 999998>>, <<784774, 730462, 671081, 607041, 538789>>,
   <<-97512, -180014, -261267, -340706, -417780>>, <<-890147, -924987, -953407, -975210, -990245>>, <<-864385, -819532, -768990, -713111, -652283>>, <<-43912, 39397, 122433, 204619, 285384>>,
   <<816933, 862104, 901291, 934223, 960670>>, <<926693, 892196, 851506, 804906, 752720>>, <<184455, 102007, 18850, -64438, -147278>>, <<-727371, -781967, -831137, -874538, -911870>>,
   <<-970456, -947005, -916981, -880593, -838093>>, <<-321309, -241371, -159757, -77035, 6222>>, <<623247, 686178, 744346, 797348, 844816>>, <<994793, 982857, 964101, 938653, 906690>>,
   <<451729, 375902, 297465, 216964, 134957>>, <<-506652, -576657, -642659, -704201, -760856>>, <<-999220, -999040, -991926, -977927, -957141>>, <<-573111, -502911, -429221, -352552, -273436>>,
   <<379914, 455592, 528107, 596957, 661664>>, <<983647, 995225, 999895, 997626, 988433>>, <<683019, 619853, 552384, 481082, 406441>>, <<-245574, -325410, -402987, -477768, -549232>>,
   <<-948388, -971492, -987854, -997360, -999944>>, <<-779259, -724390, -664493, -599985, -531312>>, <<106317, 188713, 269799, 349013, 425805>>, <<894145, 928313, 956039, 977130, 991439>>,
   <<859900, 814426, 763301, 706877, 645548>>, <<35066, -48241, -131214, -213276, -293857>>, <<-822007, -866556, -905091, -937344, -963092>>, <<-923332, -888164, -846832, -799623, -746864>>,
   <<-175750, -93198, -10000, 73267, 156026>>, <<733415, 787453, 836025, 878795, 915466>>, <<968281, 944123, 913413, 876363, 833231>>, <<312913, 232771, 151012, 68206, -15074>>,
   <<-630146, -692591, -750229, -802660, -849520>>, <<-993852, -981188, -961713, -935564, -902922>>, <<-443816, -367686, -289004, -208316, -126182>>, <<514262, 583864, 649414, 710457, 766569>>,
   <<999530, 998612, 990763, 976038, 954539>>, <<565834, 495240, 421209, 344254, 264910>>, <<-388088, -463454, -535604, -604036, -668276>>, <<-985204, -996051, -999985, -996979, -987053>>,
   <<-676528, -612884, -544985, -473304, -398338>>, <<254144, 333766, 411071, 485524, 556606>>, <<951157, 973552, 989190, 997963, 999809>>, <<773680, 718258, 657852, 592879, 523792>>,
   <<-115115, -197399, -278313, -357295, -433798>>, <<-898074, -931569, -958598, -978975, -992556>>, <<-855349, -809259, -757553, -700590, -638763>>, <<-26220, 57079, 139982, 221914, 302305>>,
   <<827015, 870939, 908818, 940390, 965435>>, <<919896, 884061, 842091, 794276, 740948>>, <<167028, 84381, 1148, -82093, -164764>>, <<-739404, -792879, -840850, -882986, -918993>>,
   <<-966033, -941170, -909775, -872066, -828305>>, <<-304495, -224154, -142258, -59374, 23923>>, <<636993, 698947, 756051, 807907, 854155>>, <<992833, 979440, 959249, 932401, 899081>>,
   <<435866, 359439, 280518, 199649, 117395>>, <<-521834, -591029, -656121, -716659, -772224>>, <<-999763, -998108, -989525, -974075, -951864>>, <<-558515, -487532, -413165, -335931, -256366>>,
   <<396229, 471278, 543056, 611066, 674834>>, <<986681, 996797, 999994, 996251, 985594>>, <<669983, 605864, 537541, 465488, 390203>>, <<-262695, -342097, -419125, -493244, -563939>>,
   <<-953853, -975537, -990450, -998489, -999599>>, <<-768043, -712073, -651161, -585729, -516232>>, <<123902, 206067, 286803, 365547, 441755>>, <<901931, 934749, 961080, 980741, 993595>>,
   <<850729, 804027, 751745, 694245, 631927>>, <<17370, -65915, -148742, -230537, -310732>>, <<-831959, -875255, -912476, -943365, -967706>>, <<-916389, -879890, -837285, -788868, -734976>>,
   <<-158296, -75559, 7702, 90910, 173487>>, <<745334, 798241, 845607, 887105, 922446>>, <<963706, 938141, 906065, 867700, 823312>>, <<296051, 215518, 133490, 50535, -32771>>,
   <<-643792, -705251, -761815, -813092, -858726>>, <<-991737, -977617, -956711, -929166, -895172>>, <<-427883, -351166, -272012, -190970, -108602>>, <<529364, 598144, 662774, 722803, 777816>>,
   <<999916, 997523, 988208, 972033, 949113>>, <<551150, 479784, 405088, 327580, 247799>>, <<-404341, -479067, -550469, -618049, -681340>>, <<-988083, -997467, -999927, -995447, -984059>>,
   <<-663386, -598800, -530058, -457636, -382039>>, <<271224, 350400, 427144, 500923, 571226>>, <<956472, 977443, 991631, 998936, 999308>>, <<762343, 705829, 644416, 578531, 508630>>,
   <<-132681, -214721, -295272, -373773, -449680>>, <<-905719, -937859, -963489, -982432, -994557>>, <<-846044, -798733, -745879, -687848, -625043>>, <<-8520, 74743, 157488, 239140, 319132>>,
   <<836837, 879501, 916061, 946263, 969898>>, <<912809, 875649, 832411, 783396, 728944>>, <<149549, 66729, -16554, -99722, -182198>>, <<-751207, -803542, -850300, -891157, -925829>>,
   <<-961307, -935040, -902285, -863267, -818257>>, <<-287586, -206868, -124713, -41694, 41616>>, <<650539, 711498, 767518, 818212, 863227>>, <<990561, 975715, 954097, 925857, 891191>>,
   <<419866, 342864, 263483, 182273, 99798>>, <<-536853, -605215, -669377, -728893, -783349>>, <<-999992, -996863, -986815, -969918, -946289>>, <<-543743, -472000, -396980, -319205, -239215>>,
   <<412420, 486817, 557836, 624982, 687791>>, <<989406, 998056, 999779, 994564, 982445>>, <<656736, 591686, 522530, 449747, 373843>>, <<-279734, -358678, -435131, -508565, -578469>>,
   <<-959019, -979275, -992736, -999306, -998940>>, <<-756586, -699533, -637624, -571290, -500991>>, <<141448, 223357, 303716, 381967, 457567>>, <<909435, 940893, 965820, 984044, 995439>>,
   <<841291, 793375, 739953, 681396, 618109>>, <<-332, -83568, -166224, -247726, -327509>>, <<-841651, -883680, -919576, -949090, -972016>>, <<-909160, -871341, -827475, -777865, -722857>>,
   <<-140792, -57896, 25402, 108524, 190893>>, <<757019, 808778, 854924, 895137, 929137>>, <<958830, 931865, 898432, 858764, 813136>>, <<279097, 198199, 115925, 32847, -50459>>,
   <<-657237, -717691, -773163, -823270, -867662>>, <<-989310, -973739, -951409, -922477, -887142>>, <<-411817, -334537, -254935, -173563, -90988>>, <<544299, 612237, 675925, 734923, 788820>>,
   <<999988, 996122, 985342, 967724, 943389>>, <<536293, 464177, 388840, 310804, 230611>>, <<-420468, -494531, -565161, -631869, -694191>>, <<-990653, -998570, -999556, -993604, -980757>>,
   <<-650036, -584529, -514964, -441825, -365620>>, <<288220, 366925, 443083, 516165, 585666>>, <<961488, 981029, 993761, 999595, 998493>>, <<750768, 693179, 630779, 564002, 493310>>,
   <<-150206, -231977, -312138, -390133, -465420>>, <<-913081, -943855, -968078, -985582, -996246>>, <<-836474, -787957, -733971, -674892, -611128>>, <<9182, 92384, 174944, 256290, 335858>>,
   <<846397, 887787, 923017, 951840, 974057>>, <<905437, 866963, 822471, 772271, 716712>>, <<132023, 49056, -34251, -117320, -199575>>, <<-762773, -813953, -859483, -899048, -932374>>,
   <<-956280, -928618, -894511, -854196, -807953>>, <<-270587, -189516, -107130, -24000, 59296>>, <<663881, 723825, 778745, 828261, 872028>>, <<987980, 971685, 948646, 919023, 883021>>,
   <<403734, 326181, 246365, 164839, 82168>>, <<-551704, -619212, -682423, -740898, -794230>>, <<-999908, -995305, -983795, -965456, -940417>>, <<-528802, -456320, -380671, -302380, -221990>>,
   <<428482, 502204, 572440, 638703, 700534>>, <<991821, 999003, 999251, 992565, 978989>>, <<643284, 577323, 507355, 433866, 357366>>, <<-296686, -375145, -451001, -523727, -592818>>,
   <<-963884, -982707, -994710, -999809, -997969>>, <<-744892, -686773, -623887, -556671, -485592>>, <<158950, 240577, 320534, 398267, 473235>>, <<916654, 946741, 970257, 987040, 996972>>,
   <<831590, 782475, 727930, 668333, 604096>>, <<-18034, -101195, -183653, -264837, -344183>>, <<-851078, -891827, -926387, -954517, -976022>>, <<-901645, -862519, -817405, -766619, -710512>>,
   <<-123245, -40215, 43095, 126105, 208239>>, <<768466, 819062, 863973, 902888, 935536>>, <<953652, 925296, 890518, 849560, 802705>>, <<262054, 180817, 98325, 15150, -68130>>,
   <<-670476, -729905, -784269, -833189, -876327>>, <<-986574, -969556, -945809, -915498, -878833>>, <<-395621, -317802, -237778, -156103, -73345>>, <<559064, 626137, 688865, 746812, 799576>>,
   <<999747, 994409, 982168, 963111, 937370>>, <<521268, 448425, 372470, 293930, 213350>>, <<-436464, -509839, -579676, -645490, -706824>>, <<-992913, -999360, -998871, -991450, -977147>>,
   <<-636483, -570074, -499709, -425876, -349086>>, <<305126, 383335, 458883, 531246, 599922>>, <<966203, 984307, 995579, 999942, 997365>>, <<738957, 680311, 616944, 549295, 477834>>,
   <<-167683, -249160, -328907, -406371, -481015>>, <<-920156, -949555, -972363, -988423, -997622>>, <<-826643, -776934, -721834, -661723, -597020>>, <<26882, 109996, 192346, 273361, 352479>>,
   <<855691, 895796, 929683, 957118, 977910>>, <<897781, 858005, 812273, 760905, 704255>>, <<114455, 31368, -51937, -134881, -216890>>, <<-774101, -824109, -868397, -906658, -938627>>,
   <<-950953, -921904, -886458, -844858, -797396>>, <<-253503, -172105, -89513, -6300, 76957>>, <<677016, 735926, 789729, 838050, 880555>>, <<985089, 967350, 942897, 911900, 874575>>,
   <<387475, 309396, 229170, 147353, 64513>>, <<-566381, -633015, -695255, -752670, -804862>>, <<-999510, -993436, -980467, -960693, -934251>>, <<-513694, -440497, -364242, -285459, -204695>>,
   <<444409, 517433, 586865, 652224, 713056>>, <<993925, 999636, 998410, 990255, 975226>>, <<629630, 562779, 492021, 417849, 340777>>, <<-313544, -391496, -466730, -538725, -606981>>,
   <<-968448, -985831, -996373, -999999, -996685>>, <<-732965, -673798, -609955, -541879, -470041>>, <<176402, 257721, 337252, 414442, 488756>>, <<923585, 952292, 974390, 989726, 998192>>,
   <<821628, 771330, 715679, 655060, 589895>>, <<-35730, -118790, -201025, -281865, -360749>>, <<-860239, -899696, -932908, -959646, -979723>>, <<-893849, -853426, -807080, -755132, -697944>>,
   <<-105658, -22521, 60773, 143645, 225521>>, <<779673, 829089, 872751, 910356, 941642>>, <<948176, 918438, 882325, 840089, 792022>>, <<244930, 163378, 80693, -2552, -85780>>,
   <<-683504, -741891, -795129, -842848, -884717>>, <<-983528, -965070, -939913, -908233, -870249>>, <<-379301, -300968, -220546, -138594, -55679>>, <<573653, 639842, 701589, 758468, 810082>>,
   <<999193, 992384, 978686, 958197, 931057>>, <<506079, 432532, 355983, 276964, 196022>>, <<-452322, -524988, -594010, -658909, -719235>>, <<-994861, -999837, -997873, -988984, -973231>>,
   <<-622730, -555441, -484297, -409792, -332443>>, <<321936, 399624, 474539, 546160, 613991>>, <<970615, 987276, 997086, 999975, 995924>>, <<726914, 667231, 602916, 534417, 462209>>,
   <<-185108, -266264, -345572, -422482, -496459>>, <<-926943, -954957, -976344, -990954, -998686>>, <<-816552, -765668, -709470, -648348, -582726>>, <<44573, 127573, 209687, 290346, 368989>>,
   <<864718, 903523, 936058, 962096, 981457>>, <<889844, 848778, 801821, 749299, 691577>>, <<96851, 13670, -69607, -152400, -234136>>, <<-785186, -834007, -877039, -913984, -944586>>,
   <<-945328, -914902, -878126, -835256, -786588>>, <<-236340, -154641, -71868, 11403, 94595>>, <<689938, 747796, 800464, 847577, 888807>>, <<981889, 962712, 936853, 904492, 865854>>,
   <<371096, 292515, 211903, 129821, 46838>>, <<-580882, -646620, -707870, -764207, -815241>>, <<-998800, -991255, -976831, -955628, -927792>>, <<-498426, -424536, -347699, -268449, -187336>>,
   <<460197, 532500, 601106, 665540, 725356>>, <<995717, 999957, 997256, 987634, 971158>>, <<615779, 548058, 476533, 401701, 324082>>, <<-330304, -407723, -482313, -553554, -620954>>,
   <<-972708, -988646, -997723, -999875, -995088>>, <<-720808, -660613, -595832, -526916, -454343>>, <<193798, 274785, 353864, 430487, 504122>>, <<930227, 957546, 978218, 992102, 999099>>,
   <<811409, 759943, 703203, 641582, 575509>>, <<-53415, -136348, -218334, -298805, -377203>>, <<-869130, -907282, -939137, -964473, -983116>>, <<-885771, -844066, -796501, -743409, -685157>>,
   <<-88039, -4820, 78433, 161141, 242731>>, <<790636, 838857, 881256, 917539, 947454>>, <<942403, 911292, 873856, 830355, 781091>>, <<227729, 145889, 63036, -20254, -103404>>,
   <<-696319, -753644, -805739, -852242, -892830>>, <<-980175, -960281, -933722, -900683, -861393>>, <<-362863, -284040, -203246, -121041, -37996>>, <<588063, 653345, 714093, 769885, 820334>>,
   <<998326, 990047, 974898, 952982, 924452>>, <<490732, 416504, 339385, 259911, 178633>>, <<-468039, -539972, -608157, -672121, -731421>>, <<-996497, -1000000, -996563, -986209, -969010>>,
   <<-608781, -540634, -468734, -393581, -315696>>, <<338645, 415789, 490046, 560903, 627867>>, <<974722, 989936, 998280, 999695, 994172>>, <<714644, 653941, 588699, 519371, 446439>>,
   <<-202475, -283285, -362129, -438460, -511748>>, <<-933440, -960061, -980018, -993174, -999437>>, <<-806205, -754161, -696883, -634769, -568248>>, <<62251, 145110, 226963, 307240, 385384>>,
   <<873473, 910968, 942140, 966773, 984696>>, <<881628, 839285, 791117, 737459, 678682>>, <<79218, -4033, -87255, -169872, -251309>>, <<-796025, -843643, -885406, -921024, -950249>>,
   <<-939407, -907613, -869519, -825391, -775534>>, <<-219102, -137127, -54201, 29102, 112202>>, <<702643, 759431, 810949, 856838, 896780>>, <<978381, 957772, 930516, 896801, 856862>>,
   <<354600, 275541, 194570, 112249, 29148>>, <<-595200, -660022, -720263, -775505, -825365>>, <<-997776, -988764, -972890, -950263, -921042>>, <<-483002, -408442, -331047, -251355, -169918>>,
   <<475841, 547400, 615158, 678648, 737427>>, <<997198, 999964, 995790, 984704, 966785>>, <<601735, 533165, 460896, 385428, 307284>>, <<-346961, -423823, -497744, -568210, -634732>>,
   <<-976663, -991151, -998761, -999438, -993180>>, <<-708426, -647220, -581522, -511788, -438502>>, <<211134, 291762, 370365, 446397, 519331>>, <<936578, 962499, 981740, 994167, 999694>>,
   <<800936, 748318, 690507, 627903, 560942>>, <<-71083, -153863, -235575, -315652, -393538>>, <<-877749, -914584, -945071, -968999, -986201>>, <<-877417, -834441, -785673, -731453, -672156>>,
   <<-70392, 12883, 96068, 178587, 259866>>, <<801351, 848362, 889485, 924434, 952968>>, <<936335, 903860, 865113, 820361, 769915>>, <<210456, 128353, 45360, -37949, -120994>>,
   <<-708915, -765161, -816097, -861369, -900663>>, <<-976513, -955191, -927238, -892851, -852266>>, <<-346311, -267023, -185881, -103450, -20301>>, <<602288, 666644, 726374, 781062, 830329>>,
   <<997146, 987401, 970804, 947468, 917557>>, <<475231, 400345, 322681, 242777, 161188>>, <<-483609, -554786, -622114, -685123, -743378>>, <<-997822, -999851, -994940, -983125, -964486>>,
   <<-594642, -525657, -453024, -377246, -298850>>, <<355248, 431823, 505400, 575470, 641546>>, <<978524, 992286, 999161, 999101, 992108>>, <<702150, 640446, 574297, 504163, 430529>>,
   <<-219779, -300218, -378573, -454301, -526876>>, <<-939644, -964863, -983386, -995083, -999874>>, <<-795606, -742418, -684079, -620991, -553593>>, <<79909, 162602, 244167, 324037, 401659>>,
   <<881955, 918126, 947926, 971147, 987627>>, <<873135, 829529, 780166, 725388, 665575>>, <<61559, -21734, -104876, -187290, -268404>>, <<-806615, -853015, -893495, -927774, -955614>>,
   <<-933191, -900039, -860640, -815268, -764238>>, <<-201796, -119571, -36517, 46792, 129775>>, <<715129, 770829, 821180, 865831, 904472>>, <<974567, 952532, 923887, 888829, 847602>>,
   <<337992, 258481, 177176, 94641, 11449>>, <<-609331, -673217, -732430, -786559, -835230>>, <<-996439, -985963, -968643, -944601, -914003>>, <<-467426, -392220, -314291, -234182, -152447>>,
   <<491336, 562128, 629018, 691543, 749268>>, <<998366, 999657, 994011, 981466, 962109>>, <<587502, 518106, 445114, 369033, 290391>>, <<-363509, -439790, -513019, -582688, -648312>>,
   <<-980312, -993346, -999485, -998688, -990960>>, <<-695821, -633624, -567030, -496500, -422524>>, <<228404, 308648, 386750, 462168, 534378>>, <<942635, 967150, 984953, 995920, 999975>>,
   <<790211, 736458, 677594, 614028, 546199>>, <<-88729, -171330, -252742, -332399, -409750>>, <<-886093, -921599, -950709, -973220, -988977>>, <<-868787, -824555, -774599, -719268, -658944>>,
   <<-52723, 30581, 113673, 195976, 276919>>, <<811814, 857600, 897434, 931040, 958183>>, <<929973, 896145, 856098, 810109, 758498>>, <<193118, 110778, 27669, -55632, -138547>>,
   <<-721289, -776439, -826200, -870226, -908213>>, <<-972546, -949801, -920464, -884739, -842873>>, <<-329650, -249922, -168459, -85827, -2599>>, <<616325, 679734, 738426, 791993, 840064>>,
   <<995653, 984445, 966405, 941658, 910375>>, <<459582, 384061, 305875, 225566, 143692>>, <<-499027, -569427, -635876, -697911, -755102>>, <<-998833, -999388, -993006, -979732, -959659>>,
   <<-580317, -510516, -437172, -360793, -281910>>, <<371739, 447721, 520596, 589857, 655025>>, <<982020, 994325, 999729, 998195, 989733>>, <<689435, 626751, 559716, 488796, 414484>>,
   <<-237013, -317056, -394898, -470000, -541839>>, <<-945554, -969363, -986445, -996681, -999999>>, <<-784757, -730443, -671059, -607018, -538765>>, <<97541, 180043, 261295, 340733, 417807>>,
   <<890160, 924998, 953415, 975216, 990248>>, <<864369, 819513, 768970, 713089, 652259>>, <<43881, -39428, -122464, -204649, -285414>>, <<-816952, -862120, -901305, -934234, -960680>>,
   <<-926683, -892183, -851491, -804889, -752701>>, <<-184427, -101978, -18821, 64467, 147307>>, <<727390, 781985, 831153, 874552, 911881>>, <<970448, 946994, 916968, 880578, 838076>>,
   <<321279, 241340, 159726, 77004, -6253>>, <<-623272, -686201, -744367, -797367, -844833>>, <<-994790, -982853, -964094, -938643, -906678>>, <<-451704, -375875, -297437, -216935, -134928>>,
   <<506677, 576680, 642681, 704221, 760874>>, <<999221, 999038, 991921, 977920, 957131>>, <<573085, 502884, 429193, 352523, 273406>>, <<-379943, -455619, -528134, -596983, -661688>>,
   <<-983653, -995229, -999897, -997625, -988430>>, <<-682998, -619830, -552360, -481056, -406414>>, <<245602, 325437, 403014, 477793, 549256>>, <<948396, 971498, 987858, 997361, 999942>>,
   <<779239, 724368, 664470, 599960, 531286>>, <<-106348, -188744, -269829, -349043, -425833>>, <<-894159, -928326, -956049, -977137, -991443>>, <<-859885, -814410, -763282, -706857, -645526>>,
   <<-35037, 48270, 131242, 213304, 293885>>, <<822023, 866570, 905103, 937354, 963099>>, <<923319, 888149, 846815, 799604, 746843>>, <<175719, 93167, 9969, -73298, -156057>>,
   <<-733437, -787473, -836043, -878811, -915479>>, <<-968275, -944114, -913402, -876349, -833215>>, <<-312886, -232742, -150984, -68177, 15103>>, <<630168, 692612, 750248, 802677, 849535>>,
   <<993848, 981181, 961704, 935553, 902908>>, <<443788, 367657, 288974, 208285, 126151>>, <<-514289, -583890, -649438, -710479, -766589>>, <<-999532, -998611, -990760, -976033, -954531>>,
   <<-565810, -495215, -421182, -344227, -264882>>, <<388115, 463480, 535628, 604059, 668298>>, <<985208, 996052, 999984, 996975, 987047>>, <<676505, 612859, 544959, 473277, 398310>>,
   <<-254174, -333795, -411100, -485551, -556632>>, <<-951167, -973560, -989195, -997966, -999810>>, <<-773662, -718238, -657830, -592856, -523767>>, <<115144, 197427, 278341, 357323, 433824>>,
   <<898086, 931579, 958606, 978980, 992559>>, <<855332, 809241, 757533, 700567, 638739>>, <<26189, -57110, -140013, -221944, -302335>>, <<-827033, -870955, -908832, -940401, -965444>>,
   <<-919885, -884048, -842075, -794258, -740929>>, <<-167000, -84352, -1119, 82122, 164792>>, <<739424, 792896, 840866, 882999, 919004>>, <<966024, 941159, 909762, 872051, 828287>>
  >>],
   [lo |-> 15860,
    vals |-> <<<<945876, 969606, 986607, 996760, 999996>>, <<784139, 729762, 670321, 606227, 537925>>, <<-98532, -181022, -262256, -341669, -418711>>, <<-890614, -925376, -953716, -975437, -990387>>, <<-863869, -818944, -768334, -712392, -651506>>, <<-42888, 40421, 123450, 205622, 286366>>, <<817524, 862623, 901734, 934588, 960954>>, <<926308, 891732, 850968, 804298, 752045>>>>],
   [lo |-> 15865,
    vals |-> <<<<-42888, 40421, 123450, 205622, 286366>>, <<817524, 862623, 901734, 934588, 960954>>, <<926308, 891732, 850968, 804298, 752045>>, <<183448, 100987, 17825, -65460, -148292>>, <<-728074, -782606, -831707, -875035, -912290>>, <<-970208, -946675, -916572, -880107, -837534>>, <<-320338, -240376, -158745, -76013, 7247>>, <<624049, 686923, 745030, 797966, 845364>>>>],
   [lo |-> 16708,
    vals |-> <<<<846974, 888286, 923434, 952172, 974302>>, <<904976, 866421, 821854, 771582, 715955>>, <<130947, 47972, -35335, -118398, -200638>>, <<-763475, -814583, -860038, -899523, -932766>>, <<-955962, -928215, -894026, -853632, -807313>>, <<-269542, -188451, -106051, -22916, 60379>>, <<664693, 724574, 779426, 828868, 872558>>, <<987812, 971428, 948302, 918594, 882511>>>>],
   [lo |-> 16781,
    vals |-> <<<<-983332, -964785, -939542, -907778, -869714>>, <<-378297, -299933, -219488, -137519, -54595>>, <<574542, 640675, 702362, 759174, 810718>>, <<999149, 992249, 978463, 957886, 930660>>, <<505143, 431554, 354969, 275921, 194958>>, <<-453290, -525911, -594882, -659725, -719989>>, <<-994970, -999856, -997802, -988823, -972981>>, <<-621880, -554538, -483348, -408802, -331420>>>>],
   [lo |-> 17536,
    vals |-> <<<<-361795, -282941, -202124, -119904, -36851>>, <<588989, 654212, 714895, 770616, 820988>>, <<998259, 989886, 974642, 952634, 924015>>, <<489734, 415462, 338308, 258805, 177506>>, <<-469051, -540935, -609066, -672969, -732202>>, <<-996593, -1000000, -996467, -986019, -968727>>, <<-607872, -539670, -467722, -392528, -314609>>, <<339722, 416830, 491045, 561851, 628758>>>>],
   [lo |-> 17541,
    vals |-> <<<<-996593, -1000000, -996467, -986019, -968727>>, <<-607872, -539670, -467722, -392528, -314609>>, <<339722, 416830, 491045, 561851, 628758>>, <<974978, 990098, 998346, 999666, 994048>>, <<713842, 653074, 587773, 518392, 445414>>, <<-203597, -284384, -363197, -439489, -512732>>, <<-933850, -960381, -980245, -993307, -999475>>, <<-805527, -753408, -696061, -633883, -567306>>>>],
   [lo |-> 18845,
    vals |-> <<<<987783, 971385, 948244, 918523, 882426>>, <<402575, 324984, 245138, 163590, 80907>>, <<-552759, -620206, -683348, -741747, -794999>>, <<-999890, -995182, -983567, -965126, -939986>>, <<-527727, -455193, -379500, -301173, -220755>>, <<429625, 503298, 573478, 639677, 701437>>, <<991982, 999059, 999202, 992410, 978730>>, <<642314, 576289, 506264, 432725, 356183>>>>],
   [lo |-> 18889,
    vals |-> <<<<984870, 967028, 942475, 911380, 873960>>, <<386308, 308192, 227937, 146101, 63250>>, <<-567424, -633995, -696165, -753503, -805612>>, <<-999470, -993290, -980217, -960340, -933799>>, <<-512608, -439360, -363062, -284245, -203455>>, <<445543, 518516, 587889, 653183, 713943>>, <<994063, 999670, 998338, 990078, 974945>>, <<628646, 561732, 490919, 416699, 339587>>>>],
   [lo |-> 42393,
    vals |-> <<<<341706, 418747, 492882, 563595, 630397>>, <<975444, 990392, 998465, 999609, 993815>>, <<712363, 651474, 586064, 516587, 443524>>, <<-205662, -286406, -365162, -441384, -514542>>, <<-934603, -960967, -980661, -993549, -999541>>, <<-804275, -752019, -694545, -632250, -565567>>, <<65500, 148331, 230132, 310336, 388386>>, <<875053, 912306, 943226, 967600, 985258>>>>],
   [lo |-> 42398,
    vals |-> <<<<-804275, -752019, -694545, -632250, -565567>>, <<65500, 148331, 230132, 310336, 388386>>, <<875053, 912306, 943226, 967600, 985258>>, <<880087, 837511, 789122, 735256, 676288>>, <<75972, -7288, -90498, -173079, -254459>>, <<-797992, -845387, -886915, -922287, -951258>>, <<-938286, -906241, -867907, -823549, -773475>>, <<-215925, -133902, -50950, 32356, 115437>>>>],
   [lo |-> 43241,
    vals |-> <<<<118437, 200677, 281524, 360418, 436809>>, <<899540, 932779, 959545, 979651, 992957>>, <<853610, 807288, 755364, 698197, 636184>>, <<22874, -60420, -143296, -225176, -305494>>, <<-828892, -872579, -910210, -941524, -966303>>, <<-918579, -882493, -840282, -792239, -738698>>, <<-163729, -81047, 2197, 85426, 168062>>, <<741652, 794912, 842656, 884551, 920306>>>>],
   [lo |-> 43314,
    vals |-> <<<<-759202, -810742, -856656, -896624, -930370>>, <<-957875, -930647, -896959, -857046, -811185>>, <<-275883, -194919, -112602, -29504, 53799>>, <<659754, 720016, 775280, 825163, 869320>>, <<988816, 972971, 950373, 921179, 885591>>, <<408764, 331381, 251697, 170266, 87654>>, <<-547104, -614880, -678388, -737189, -790873>>, <<-999968, -995823, -984767, -966876, -942275>>>>],
   [lo |-> 44069,
    vals |-> <<<<-952623, -924000, -888964, -847759, -800670>>, <<-258767, -177467, -94935, -11745, 71527>>, <<672998, 732228, 786377, 835067, 877962>>, <<986011, 968716, 944697, 914122, 877202>>, <<392489, 314570, 234467, 152737, 69946>>, <<-561886, -628791, -691331, -749074, -801618>>, <<-999666, -994044, -981523, -962190, -936179>>, <<-518359, -445379, -369308, -290673, -210022>>>>],
   [lo |-> 44074,
    vals |-> <<<<-561886, -628791, -691331, -749074, -801618>>, <<-999666, -994044, -981523, -962190, -936179>>, <<-518359, -445379, -369308, -290673, -210022>>, <<439525, 512765, 582447, 648087, 709228>>, <<993311, 999475, 998702, 990998, 976416>>, <<633851, 567271, 496755, 422790, 345891>>, <<-308369, -386479, -461908, -534130, -602645>>, <<-967076, -984903, -995894, -999974, -997113>>>>],
   [lo |-> 45378,
    vals |-> <<<<741773, 795022, 842753, 884635, 920377>>, <<965114, 939971, 908305, 870334, 826323>>, <<301133, 220715, 138765, 55852, -27449>>, <<-639709, -701466, -758355, -809981, -855985>>, <<-992406, -978723, -958247, -931121, -897533>>, <<-432690, -356147, -277132, -196193, -113893>>, <<524839, 593869, 658777, 719113, 774459>>, <<999833, 997884, 989009, 973270, 950776>>>>],
   [lo |-> 45422,
    vals |-> <<<<753529, 805635, 852150, 892750, 927155>>, <<960328, 933783, 900757, 861480, 816224>>, <<284206, 203415, 121212, 38168, -45140>>, <<-653215, -713973, -769775, -820236, -865003>>, <<-990073, -974937, -953036, -924519, -889586>>, <<-416663, -339550, -260080, -178805, -96289>>, <<539824, 608018, 671992, 731302, 785536>>, <<999999, 996576, 986237, 969052, 945142>>>>]
  >>
(***************************************************************************)
(* Bounds of the model.                                                    *)
(***************************************************************************)
MaxWidth == 2
MaxHeight == 2
MaxCalls == 3

Undef == -1     \* JavaScript undefined / NaN as an array element or operand
None == [none |-> TRUE]

Min(a, b) == IF a < b THEN a ELSE b
Max(a, b) == IF a > b THEN a ELSE b

(***************************************************************************)
(* Typed-array access.                                                     *)
(***************************************************************************)
Get(a, i) == IF i >= 0 /\ i < Len(a) THEN a[i + 1] ELSE Undef

\* Storing into a Buffer: ToUint8 of the value; undefined and NaN become 0.
ToByte(v) == IF v = Undef THEN 0 ELSE v % 256

Put(a, i, v) == IF i >= 0 /\ i < Len(a) THEN [a EXCEPT ![i + 1] = ToByte(v)] ELSE a

(***************************************************************************)
(* Seeded PRNG.                                                            *)
(***************************************************************************)
\* The sum of seed.charCodeAt(i) * (i + 1) over the 0-based positions
\* lo-1 .. hi-1, modulo 100000, summed by halves
RECURSIVE WeightedSum(_, _, _)
WeightedSum(seed, lo, hi) ==
  IF lo > hi THEN 0
  ELSE IF lo = hi THEN (seed[lo] * lo) % 100000
  ELSE (WeightedSum(seed, lo, (lo + hi) \div 2)
          + WeightedSum(seed, ((lo + hi) \div 2) + 1, hi)) % 100000

\* What the loop
\*   for (i ...) seedValue = (seedValue + seed.charCodeAt(i) * (i + 1)) % 100000
\* leaves in seedValue when it starts from start: reducing modulo 100000 at
\* every step or once gives the same value.
SeedAccumulate(seed, start) == (start + WeightedSum(seed, 1, Len(seed))) % 100000

\* A module-level accumulator that is not reset by the call (mutation).
InitSeedValueStale(seed) == SeedAccumulate(seed, seedValue)

\* let seedValue = 0; followed by the loop
InitSeedValue(seed) == SeedAccumulate(seed, 0)

\* The entry for state s of a table given as windows [lo, vals]
WindowEntry(w, s) == w.vals[s - w.lo + 1]

TableAt(windows, s) ==
  WindowEntry(windows[CHOOSE k \in 1..Len(windows) :
                        /\ windows[k].lo <= s
                        /\ s < windows[k].lo + Len(windows[k].vals)], s)

\* floor(frac(Math.sin(s) * 100000) * 10^8)
RandAt(s) == TableAt(RandWindows, s)

\* floor(Math.sin(c / 12.0 + s) * 10^6)
WarpSinAt(s, c) == TableAt(WarpWindows, s)[c + 1]

\* floor(r / 10^8 * n) without leaving 32 bits
ScaleFloor(r, n) == ((r \div 10000) * n + ((r % 10000) * n) \div 10000) \div 10000

\* floor(seededRandom() * n) for the draw made in PRNG state s
RandFloor(s, n) == ScaleFloor(RandAt(s), n)

(***************************************************************************)
(* applyAiShielding.                                                       *)
(***************************************************************************)
Strength(aggression) ==
  IF aggression = "normal" THEN [noise |-> 20, shift |-> 3, warp |-> 2]
  ELSE [noise |-> 40, shift |-> 5, warp |-> 3]

\* Math.floor of noiseVal = (seededRandom() - 0.5) * noiseStrength for the
\* draw made in state s (noiseStrength is even)
NoiseFloor(s, noiseStrength) == RandFloor(s, noiseStrength) - noiseStrength \div 2

\* Math.max(0, Math.min(255, p + noiseVal)) as the Buffer stores it: the
\* Buffer truncates the clamped value, and p is an integer.
NoiseSample(p, noiseFloor) ==
  IF p = Undef THEN Undef ELSE Max(0, Min(255, p + noiseFloor))

\* pixels[j] = Math.max(0, Math.min(255, pixels[j] + noiseVal))
NoiseWrite(pixels, j, noiseFloor) ==
  Put(pixels, j, NoiseSample(Get(pixels, j), noiseFloor))

\* A loop body that also writes the fourth sample of the pixel (mutation).
NoisePixelAllChannels(pixels, i, noiseFloor) ==
  NoiseWrite(NoiseWrite(NoiseWrite(NoiseWrite(pixels, i, noiseFloor),
                                   i + 1, noiseFloor),
                        i + 2, noiseFloor),
             i + 3, noiseFloor)

\* The body of the noise loop for the pixel that starts at sample i
NoisePixel(pixels, i, noiseFloor) ==
  NoiseWrite(NoiseWrite(NoiseWrite(pixels, i, noiseFloor), i + 1, noiseFloor),
             i + 2, noiseFloor)

\* A noise loop whose generator advances by two at every draw (mutation).
RECURSIVE NoiseLayerTwoSteps(_, _, _, _, _)
NoiseLayerTwoSteps(pixels, i, s, channels, noiseStrength) ==
  IF i >= Len(pixels) THEN [pixels |-> pixels, seedValue |-> s]
  ELSE NoiseLayerTwoSteps(NoisePixel(pixels, i, NoiseFloor(s, noiseStrength)),
                          i + channels, s + 2, channels, noiseStrength)

\* Layer 1: for (let i = 0; i < pixels.length; i += channels)
RECURSIVE NoiseLayer(_, _, _, _, _)
NoiseLayer(pixels, i, s, channels, noiseStrength) ==
  IF i >= Len(pixels) THEN [pixels |-> pixels, seedValue |-> s]
  ELSE NoiseLayer(NoisePixel(pixels, i, NoiseFloor(s, noiseStrength)),
                  i + channels, s + 1, channels, noiseStrength)

\* Source sample indices of layer 2 for the pixel (x, y)
ShiftRSrcIndex(x, y, width, height, channels, shift) ==
  (Min(height - 1, y + shift) * width + Min(width - 1, x + shift)) * channels

ShiftBSrcIndex(x, y, width, height, channels, shift) ==
  (Max(0, y - shift) * width + Max(0, x - shift)) * channels

\* The three assignments of layer 2 for the pixel whose samples start at
\* baseIndex
ShiftPixel(pixels, shiftedPixels, baseIndex, rSrcIndex, bSrcIndex) ==
  Put(Put(Put(pixels, baseIndex, Get(shiftedPixels, rSrcIndex)),
          baseIndex + 1, Get(shiftedPixels, baseIndex + 1)),
      baseIndex + 2, Get(shiftedPixels, bSrcIndex + 2))

\* A layer 2 that reads its sources from the buffer it is writing, not from
\* the copy (mutation).
RECURSIVE ShiftLayerInPlace(_, _, _, _, _, _, _)
ShiftLayerInPlace(pixels, shiftedPixels, k, width, height, channels, shift) ==
  IF k >= width * height \/ pixels = <<>> THEN pixels
  ELSE ShiftLayerInPlace(
         ShiftPixel(pixels, pixels, k * channels,
                    ShiftRSrcIndex(k % width, k \div width, width, height, channels,
                                   shift),
                    ShiftBSrcIndex(k % width, k \div width, width, height, channels,
                                   shift)),
         shiftedPixels, k + 1, width, height, channels, shift)

\* Layer 2: k enumerates the pixels in the order of the nested y, x loops.
\* (An empty buffer takes no write; testing for it evaluates the buffer at
\* every pixel rather than at the end of the loop.)
RECURSIVE ShiftLayer(_, _, _, _, _, _, _)
ShiftLayer(pixels, shiftedPixels, k, width, height, channels, shift) ==
  IF k >= width * height \/ pixels = <<>> THEN pixels
  ELSE ShiftLayer(
         ShiftPixel(pixels, shiftedPixels, k * channels,
                    ShiftRSrcIndex(k % width, k \div width, width, height, channels,
                                   shift),
                    ShiftBSrcIndex(k % width, k \div width, width, height, channels,
                                   shift)),
         shiftedPixels, k + 1, width, height, channels, shift)

\* Math.floor(Math.sin(c / 12.0 + seedValue) * warpStrength)
WarpOffset(c, s, warpStrength) == (WarpSinAt(s, c) * warpStrength) \div 1000000

\* src_idx of layer 3 for the pixel (x, y)
WarpSrcIndex(x, y, width, height, channels, s, warpStrength) ==
  (Max(0, Min(height - 1, y + WarpOffset(x, s, warpStrength))) * width
     + Max(0, Min(width - 1, x + WarpOffset(y, s, warpStrength)))) * channels

\* The three assignments of layer 3
WarpPixel(pixels, warpedPixels, dst_idx, src_idx) ==
  Put(Put(Put(pixels, dst_idx, Get(warpedPixels, src_idx)),
          dst_idx + 1, Get(warpedPixels, src_idx + 1)),
      dst_idx + 2, Get(warpedPixels, src_idx + 2))

\* Layer 3
RECURSIVE WarpLayer(_, _, _, _, _, _, _, _)
WarpLayer(pixels, warpedPixels, k, width, height, channels, s, warpStrength) ==
  IF k >= width * height \/ pixels = <<>> THEN pixels
  ELSE WarpLayer(
         WarpPixel(pixels, warpedPixels, k * channels,
                   WarpSrcIndex(k % width, k \div width, width, height, channels, s,
                                warpStrength)),
         warpedPixels, k + 1, width, height, channels, s, warpStrength)

\* if (shift > 0) { const shiftedPixels = Buffer.from(pixels); ... }
ShiftStage(pixels, width, height, channels, shift) ==
  IF shift > 0 THEN ShiftLayer(pixels, pixels, 0, width, height, channels, shift)
  ELSE pixels

\* if (warpStrength > 0) { const warpedPixels = Buffer.from(pixels); ... }
WarpStage(pixels, width, height, channels, s, warpStrength) ==
  IF warpStrength > 0
  THEN WarpLayer(pixels, pixels, 0, width, height, channels, s, warpStrength)
  ELSE pixels

\* Layers 2 and 3, on what layer 1 left
ShieldAfterNoise(noisy, width, height, channels, strength) ==
  [pixels |-> WarpStage(ShiftStage(noisy.pixels, width, height, channels,
                                   strength.shift),
                        width, height, channels, noisy.seedValue, strength.warp),
   seedValue |-> noisy.seedValue,
   threw |-> FALSE]

ShieldWith(pixels, width, height, channels, seed, strength) ==
  ShieldAfterNoise(NoiseLayer(pixels, 0, InitSeedValue(seed), channels, strength.noise),
                   width, height, channels, strength)

\* The whole call: the buffer after the three layers and the accumulator
\* the closure leaves behind.  The function has no parameter check and no
\* throw statement: it returns normally for every argument list.
applyAiShielding(pixels, width, height, channels, seed, aggression) ==
  ShieldWith(pixels, width, height, channels, seed, Strength(aggression))

(***************************************************************************)
(* JavaScript values held in receipts.  A string is the tuple of its code  *)
(* units, a number n is <<NumTag, n>>, undefined is <<Undef>>.  An object  *)
(* is the sequence of its <<key, value>> properties in insertion order.    *)
(***************************************************************************)
NumTag == -2
Num(n) == <<NumTag, n>>
IsNum(v) == Len(v) = 2 /\ v[1] = NumTag
UndefinedV == <<Undef>>

K_version == <<118, 101, 114, 115, 105, 111, 110>>
K_owner == <<111, 119, 110, 101, 114>>
K_orig_sha256 == <<111, 114, 105, 103, 95, 115, 104, 97, 50, 53, 54>>
K_seed == <<115, 101, 101, 100>>
K_timestamp == <<116, 105, 109, 101, 115, 116, 97, 109, 112>>
K_public_key == <<112, 117, 98, 108, 105, 99, 95, 107, 101, 121>>
K_protection_level ==
  <<112, 114, 111, 116, 101, 99, 116, 105, 111, 110, 95, 108, 101, 118, 101, 108>>
K_protection_score ==
  <<112, 114, 111, 116, 101, 99, 116, 105, 111, 110, 95, 115, 99, 111, 114, 101>>
K_faces_detected ==
  <<102, 97, 99, 101, 115, 95, 100, 101, 116, 101, 99, 116, 101, 100>>
K_final_sha256 == <<102, 105, 110, 97, 108, 95, 115, 104, 97, 50, 53, 54>>
K_signature == <<115, 105, 103, 110, 97, 116, 117, 114, 101>>

HasKey(obj, key) == \E i \in 1..Len(obj) : obj[i][1] = key

\* The place of a property the object has
KeyIndex(obj, key) == CHOOSE i \in 1..Len(obj) : obj[i][1] = key

\* obj.key
Field(obj, key) ==
  IF HasKey(obj, key)
  THEN obj[KeyIndex(obj, key)][2]
  ELSE UndefinedV

\* obj.key = value: an existing property keeps its place, a new one is appended
ReplaceAt(obj, i, property) ==
  SubSeq(obj, 1, i - 1) \o <<property>> \o SubSeq(obj, i + 1, Len(obj))

SetField(obj, key, value) ==
  IF HasKey(obj, key)
  THEN ReplaceAt(obj, KeyIndex(obj, key), <<key, value>>)
  ELSE Append(obj, <<key, value>>)

\* Object.keys(obj)
ObjectKeys(obj) == [i \in 1..Len(obj) |-> obj[i][1]]

\* a < b in the order Array.prototype.sort() uses for strings (code units)
RECURSIVE LexLess(_, _)
LexLess(a, b) ==
  IF b = <<>> THEN FALSE
  ELSE IF a = <<>> THEN TRUE
  ELSE IF a[1] # b[1] THEN a[1] < b[1]
  ELSE LexLess(Tail(a), Tail(b))

RECURSIVE InsertSorted(_, _)
InsertSorted(sorted, k) ==
  IF sorted = <<>> THEN <<k>>
  ELSE IF LexLess(k, sorted[1]) THEN <<k>> \o sorted
  ELSE <<sorted[1]>> \o InsertSorted(Tail(sorted), k)

\* Keys left in the order Object.keys gave them (mutation).
SortKeysNone(keys) == keys

\* keys.sort()
RECURSIVE SortKeys(_)
SortKeys(keys) ==
  IF keys = <<>> THEN <<>> ELSE InsertSorted(SortKeys(Tail(keys)), keys[1])

\* The decimal digits of a natural number
RECURSIVE Decimal(_)
Decimal(n) == IF n < 10 THEN <<48 + n>> ELSE Append(Decimal(n \div 10), 48 + (n % 10))

\* JSON text of a primitive: a number in decimal, a string in double quotes
JsonValue(v) == IF IsNum(v) THEN Decimal(v[2]) ELSE <<34>> \o v \o <<34>>

\* "key":value
JsonMember(key, value) == <<34>> \o key \o <<34, 58>> \o JsonValue(value)

\* A member followed by the members after it
JsonJoin(member, rest) == IF rest = <<>> THEN member ELSE member \o <<44>> \o rest

\* The members "key":value of the listed keys the object has, comma separated
RECURSIVE JsonMembers(_, _, _)
JsonMembers(obj, keys, i) ==
  IF i > Len(keys) THEN <<>>
  ELSE IF ~HasKey(obj, keys[i]) \/ Field(obj, keys[i]) = UndefinedV
          \/ (\E j \in 1..(i - 1) : keys[j] = keys[i])
       THEN JsonMembers(obj, keys, i + 1)
  ELSE JsonJoin(JsonMember(keys[i], Field(obj, keys[i])),
                JsonMembers(obj, keys, i + 1))

\* JSON.stringify(obj, keys) with an array replacer: the listed properties,
\* in the order of the array
JsonStringify(obj, keys) == <<123>> \o JsonMembers(obj, keys, 1) \o <<125>>

(***************************************************************************)
(* Digests and signatures.  SHA-256 and HMAC-SHA256 are modelled as a      *)
(* 64-digit hexadecimal text that is injective on the inputs the model     *)
(* hashes: a byte string of at most 31 bytes is spelt out, two digits per  *)
(* byte, followed by its length; longer inputs are folded onto 31 bytes.   *)
(* Ed25519 is modelled as an ideal signature: a signature determines the   *)
(* key and the digest of the message it was made for, and nothing else     *)
(* verifies.                                                               *)
(***************************************************************************)
\* The sum of the elements lo..hi of a byte string, summed by halves
RECURSIVE SumRange(_, _, _)
SumRange(bytes, lo, hi) ==
  IF lo > hi THEN 0
  ELSE IF lo = hi THEN bytes[lo]
  ELSE SumRange(bytes, lo, (lo + hi) \div 2)
         + SumRange(bytes, ((lo + hi) \div 2) + 1, hi)

SumBytes(bytes) == SumRange(bytes, 1, Len(bytes))

HexDigits == <<48, 49, 50, 51, 52, 53, 54, 55, 56, 57, 97, 98, 99, 100, 101, 102>>

\* Buffer.from(bytes).toString('hex')
HexOf(bytes) ==
  [k \in 1..(2 * Len(bytes)) |->
     HexDigits[(IF k % 2 = 1 THEN bytes[(k + 1) \div 2] \div 16
                ELSE bytes[(k + 1) \div 2] % 16) + 1]]

HexValue(c) == IF c >= 97 THEN c - 87 ELSE c - 48

\* Buffer.from(text, 'hex')
HexDecode(text) ==
  [i \in 1..(Len(text) \div 2) |-> HexValue(text[2 * i - 1]) * 16 + HexValue(text[2 * i])]

RECURSIVE FoldByte(_, _, _)
FoldByte(bytes, i, acc) ==
  IF i > Len(bytes) THEN acc % 256 ELSE FoldByte(bytes, i + 31, acc + bytes[i])

DigestByte(bytes, i) ==
  IF i = 32 THEN Len(bytes) % 256
  ELSE IF i > Len(bytes) THEN 0
  ELSE FoldByte(bytes, i, 0)

\* The 32 bytes of createHash('sha256').update(data).digest()
Sha256Digest(data) == [i \in 1..32 |-> DigestByte(data, i)]

\* createHash('sha256').update(data).digest('hex')
sha256(data) == HexOf(Sha256Digest(data))

\* createHmac('sha256', key).update(message).digest('hex'); the key enters
\* the digest through the sum of its bytes.
HmacSha256(key, message) == sha256(<<SumBytes(key) % 256>> \o message)

\* forge.pki.ed25519.generateKeyPair({ seed }): a public key of 32 bytes that
\* the seed determines, and a private key of 64 bytes holding both
Ed25519PublicKey(seed) == [i \in 1..32 |-> 255 - seed[i]]

Ed25519KeyPair(seed) ==
  [privateKey |-> seed \o Ed25519PublicKey(seed), publicKey |-> Ed25519PublicKey(seed)]

\* forge.pki.ed25519.sign({ privateKey, message }): 64 bytes; the ideal
\* signature names the key and the digest of the message
Ed25519Sign(privateKeyBytes, message) ==
  SubSeq(privateKeyBytes, 33, 64) \o Sha256Digest(message)

\* Ed25519 verification of a signature against a public key
Ed25519Verify(publicKey, message, signature) ==
  Len(publicKey) = 32 /\ signature = publicKey \o Sha256Digest(message)

(***************************************************************************)
(* embedInvisibleWatermark.                                                *)
(***************************************************************************)
OWNER_ID == <<83, 65, 83, 72, 65>>                      \* 'SASHA'
WmSignature == <<70, 71, 45, 87, 65, 82, 78>>           \* 'FG-WARN'
WmWarning ==                              \* 'FACEGUARD_DO_NOT_EDIT_OR_MANIPULATE'
  <<70, 65, 67, 69, 71, 85, 65, 82, 68, 95, 68, 79, 95, 78, 79, 84, 95, 69,
    68, 73, 84, 95, 79, 82, 95, 77, 65, 78, 73, 80, 85, 76, 65, 84, 69>>
Sep == <<58, 58>>                                       \* '::'
Pending == <<112, 101, 110, 100, 105, 110, 103>>        \* 'pending'
Zero == 48                                              \* '0'

\* receipt.final_sha256.substring(0, 32), or '0'.repeat(32) while pending
HashPayload(final_sha256) ==
  IF final_sha256 # UndefinedV /\ final_sha256 # <<>> /\ final_sha256 # Pending
  THEN SubSeq(final_sha256, 1, Min(32, Len(final_sha256)))
  ELSE [i \in 1..32 |-> Zero]

\* `${signature}::${warning}::${receipt.seed}::${hashPayload}::${OWNER_ID}`
WatermarkText(receipt) ==
  WmSignature \o Sep \o WmWarning \o Sep \o Field(receipt, K_seed) \o Sep
    \o HashPayload(Field(receipt, K_final_sha256)) \o Sep \o OWNER_ID

\* sum of the character codes modulo 256
Checksum(text) == SumBytes(text) % 256

Pow2(n) == IF n = 0 THEN 1 ELSE IF n = 1 THEN 2 ELSE IF n = 2 THEN 4
           ELSE IF n = 3 THEN 8 ELSE IF n = 4 THEN 16 ELSE IF n = 5 THEN 32
           ELSE IF n = 6 THEN 64 ELSE 128

\* watermarkBinary.length: eight bits per character plus the checksum byte
WatermarkLength(text) == 8 * Len(text) + 8

\* parseInt(watermarkBinary[k], 2): bit k of the padStart(8,'0') renderings
WatermarkBit(text, checksum, k) ==
  ((IF k \div 8 < Len(text) THEN text[k \div 8 + 1] ELSE checksum)
     \div Pow2(7 - (k % 8))) % 2

\* A write that stores the bit as the whole sample (mutation).
SetLsbWhole(p, bit) == bit

\* A write that flips the least significant bit for a 1 instead of setting
\* it (mutation).
SetLsbXor(p, bit) == IF p = Undef THEN bit ELSE (p - (p % 2)) + (((p % 2) + bit) % 2)

\* (pixels[channelIdx] & 0xFE) | bit
SetLsb(p, bit) == IF p = Undef THEN bit ELSE (p - (p % 2)) + bit

\* The state of the call when the while loop is first reached, for the
\* watermark text and the seed of the receipt
EmbedState(pixels, totalPixels, text, seed) ==
  [pixels |-> pixels, totalPixels |-> totalPixels,
   seed |-> seed, text |-> text, checksum |-> Checksum(text),
   seedValue |-> InitSeedValue(seed),
   usedIndices |-> {}, bitIndex |-> 0,
   pc |-> IF 0 < WatermarkLength(text) THEN "loop" ELSE "done"]

EmbedStart(pixels, width, height, receipt) ==
  EmbedState(pixels, width * height, WatermarkText(receipt), Field(receipt, K_seed))

\* The loop test after an accepted draw: the safety break and the while
\* condition
EmbedPc(e, usedSize) ==
  IF usedSize >= e.totalPixels * 3 \/ e.bitIndex + 1 >= WatermarkLength(e.text)
  THEN "done" ELSE "loop"

\* A write that stores the bit after the one that is due (mutation).
EmbedWriteNextBit(e, uniqueIndex, channelIdx) ==
  [e EXCEPT
     !.seedValue = e.seedValue + 2,
     !.pixels = Put(e.pixels, channelIdx,
                    SetLsb(Get(e.pixels, channelIdx),
                           WatermarkBit(e.text, e.checksum, e.bitIndex + 1))),
     !.usedIndices = e.usedIndices \cup {uniqueIndex},
     !.bitIndex = e.bitIndex + 1,
     !.pc = EmbedPc(e, Cardinality(e.usedIndices \cup {uniqueIndex}))]

\* pixels[channelIdx] = (pixels[channelIdx] & 0xFE) | bit;
\* usedIndices.add(uniqueIndex); bitIndex++; and the loop test
EmbedWrite(e, uniqueIndex, channelIdx) ==
  [e EXCEPT
     !.seedValue = e.seedValue + 2,
     !.pixels = Put(e.pixels, channelIdx,
                    SetLsb(Get(e.pixels, channelIdx),
                           WatermarkBit(e.text, e.checksum, e.bitIndex))),
     !.usedIndices = e.usedIndices \cup {uniqueIndex},
     !.bitIndex = e.bitIndex + 1,
     !.pc = EmbedPc(e, Cardinality(e.usedIndices \cup {uniqueIndex}))]

\* A body that does not consult usedIndices before writing (mutation).
EmbedDrawNoUsedCheck(e, pixelNum, channelNum) ==
  IF pixelNum * 4 >= Len(e.pixels)
  THEN [e EXCEPT !.seedValue = e.seedValue + 2]
  ELSE EmbedWrite(e, pixelNum * 3 + channelNum, pixelNum * 4 + channelNum)

\* A body whose rejected draw leaves the generator where it was, so that
\* the same pair is drawn again (mutation).
EmbedDrawStuck(e, pixelNum, channelNum) ==
  IF (pixelNum * 3 + channelNum) \in e.usedIndices \/ pixelNum * 4 >= Len(e.pixels)
  THEN e
  ELSE EmbedWrite(e, pixelNum * 3 + channelNum, pixelNum * 4 + channelNum)

\* The body of the loop for the drawn pixelNum and channelNum
EmbedDraw(e, pixelNum, channelNum) ==
  IF (pixelNum * 3 + channelNum) \in e.usedIndices \/ pixelNum * 4 >= Len(e.pixels)
  THEN [e EXCEPT !.seedValue = e.seedValue + 2]
  ELSE EmbedWrite(e, pixelNum * 3 + channelNum, pixelNum * 4 + channelNum)

\* One pass through the body of `while (bitIndex < watermarkBinary.length)`,
\* followed by the loop test.
EmbedIter(e) ==
  EmbedDraw(e, RandFloor(e.seedValue, e.totalPixels), RandFloor(e.seedValue + 1, 3))

\* Up to 2^k iterations of the loop, stopping when it ends
RECURSIVE EmbedBlock(_, _)
EmbedBlock(e, k) ==
  IF e.pc = "done" THEN e
  ELSE IF k = 0 THEN EmbedIter(e)
  ELSE EmbedBlock(EmbedBlock(e, k - 1), k - 1)

\* The loop run to its end, in blocks of 64 iterations
RECURSIVE EmbedRun(_)
EmbedRun(e) == IF e.pc = "done" THEN e ELSE EmbedRun(EmbedBlock(e, 6))

EmbedResult(e) ==
  [pixels |-> e.pixels, seedValue |-> e.seedValue,
   bitsWritten |-> e.bitIndex, threw |-> FALSE]

\* The whole call.  The capacity test only logs a warning: the function has
\* no throw statement and no early return.
embedInvisibleWatermark(pixels, width, height, receipt) ==
  EmbedResult(EmbedRun(EmbedStart(pixels, width, height, receipt)))

(***************************************************************************)
(* The extractor: the same seed, the same draws and the same accept /      *)
(* reject rule as the embedding loop, reading least significant bits.      *)
(***************************************************************************)
ExtractStart(pixels, totalPixels, seed, length) ==
  [pixels |-> pixels, totalPixels |-> totalPixels, length |-> length,
   seedValue |-> InitSeedValue(seed),
   usedIndices |-> {}, bitIndex |-> 0, out |-> <<>>,
   pc |-> IF 0 < length THEN "loop" ELSE "done"]

\* Reading the least significant bit of the sample at channelIdx
ExtractRead(x, uniqueIndex, channelIdx) ==
  [x EXCEPT
     !.seedValue = x.seedValue + 2,
     !.out = Append(x.out, IF Get(x.pixels, channelIdx) = Undef THEN 0
                           ELSE Get(x.pixels, channelIdx) % 2),
     !.usedIndices = x.usedIndices \cup {uniqueIndex},
     !.bitIndex = x.bitIndex + 1,
     !.pc = IF Cardinality(x.usedIndices \cup {uniqueIndex}) >= x.totalPixels * 3
               \/ x.bitIndex + 1 >= x.length
            THEN "done" ELSE "loop"]

ExtractDraw(x, pixelNum, channelNum) ==
  IF (pixelNum * 3 + channelNum) \in x.usedIndices \/ pixelNum * 4 >= Len(x.pixels)
  THEN [x EXCEPT !.seedValue = x.seedValue + 2]
  ELSE ExtractRead(x, pixelNum * 3 + channelNum, pixelNum * 4 + channelNum)

ExtractIter(x) ==
  ExtractDraw(x, RandFloor(x.seedValue, x.totalPixels), RandFloor(x.seedValue + 1, 3))

\* Up to 2^k iterations of the extractor's loop, stopping when it ends
RECURSIVE ExtractBlock(_, _)
ExtractBlock(x, k) ==
  IF x.pc = "done" THEN x
  ELSE IF k = 0 THEN ExtractIter(x)
  ELSE ExtractBlock(ExtractBlock(x, k - 1), k - 1)

\* The byte spelled by bits 8j+1 .. 8j+8 of a bit sequence
ByteAt(bits, j) ==
  128 * bits[8 * j + 1] + 64 * bits[8 * j + 2] + 32 * bits[8 * j + 3]
    + 16 * bits[8 * j + 4] + 8 * bits[8 * j + 5] + 4 * bits[8 * j + 6]
    + 2 * bits[8 * j + 7] + bits[8 * j + 8]

BytesOf(bits) == [j \in 1..(Len(bits) \div 8) |-> ByteAt(bits, j - 1)]

(***************************************************************************)
(* The embedding loop, one iteration per step, followed by the extractor.  *)
(***************************************************************************)
BigShapes == {<<16, 15>>, <<16, 16>>}

(***************************************************************************)
(* Module state of route.ts and the helpers of the POST handler.           *)
(***************************************************************************)
DefaultMasterKey ==     \* 'default-secret-key-that-is-long-and-secure'
  <<100, 101, 102, 97, 117, 108, 116, 45, 115, 101, 99, 114, 101, 116,
    45, 107, 101, 121, 45, 116, 104, 97, 116, 45, 105, 115, 45, 108,
    111, 110, 103, 45, 97, 110, 100, 45, 115, 101, 99, 117, 114, 101>>
ConfiguredMasterKey ==  \* a secret set in the environment
  <<99, 111, 110, 102, 105, 103, 117, 114, 101, 100, 45, 109, 97, 115,
    116, 101, 114, 45, 107, 101, 121>>

\* process.env.FACEGUARD_MASTER_KEY || '<default>'
MasterKeyOf(env) == IF env = UndefinedV \/ env = <<>> THEN DefaultMasterKey ELSE env

\* `{} as any`: an object without privateKey and publicKey
NoKeyPair == [privateKey |-> UndefinedV, publicKey |-> UndefinedV]

\* The try / catch that creates the key pair when the module is loaded.
\* forgeWorks tells whether generateKeyPair returned or threw.
KeySetup(masterKey, forgeWorks) ==
  IF forgeWorks
  THEN LET kp == Ed25519KeyPair(Sha256Digest(masterKey))
       IN [privateKey |-> kp, publicKeyHex |-> HexOf(kp.publicKey)]
  ELSE [privateKey |-> NoKeyPair, publicKeyHex |-> <<>>]

\* randomBytes(16) of the request with the given number: every request
\* draws its own 16 bytes.
RandomBytes(id) == [i \in 1..16 |-> (id * 37 + i * 11) % 256]

\* deriveSeed(), for the clock reading and the random bytes it obtained
deriveSeed(masterKey, now, random) ==
  HmacSha256(masterKey,
             Decimal(now) \o <<124>> \o HexOf(random) \o <<124>> \o OWNER_ID)

\* A signPayload without the test of l.225: with no private key it hands the
\* placeholder back instead of throwing (mutation).
signPayloadNoKeyTest(payload, keyPair) ==
  IF keyPair = None \/ keyPair.privateKey = UndefinedV
  THEN [threw |-> FALSE, message |-> <<>>, signature |-> Pending]
  ELSE [threw |-> FALSE,
        message |-> JsonStringify(payload, SortKeys(ObjectKeys(payload))),
        signature |-> HexOf(Ed25519Sign(keyPair.privateKey,
                        JsonStringify(payload, SortKeys(ObjectKeys(payload)))))]

\* signPayload(payload): the message it serialises and the signature in hex,
\* or the Error it throws when there is no private key.
signPayload(payload, keyPair) ==
  IF keyPair = None \/ keyPair.privateKey = UndefinedV
  THEN [threw |-> TRUE, message |-> <<>>, signature |-> <<>>]
  ELSE LET message == JsonStringify(payload, SortKeys(ObjectKeys(payload)))
       IN [threw |-> FALSE, message |-> message,
           signature |-> HexOf(Ed25519Sign(keyPair.privateKey, message))]

(***************************************************************************)
(* Rate limiting.  ipRequestCounts is a Map: a function whose domain is    *)
(* the set of keys present.  timers counts, per ip, the setTimeout         *)
(* callbacks that have not run yet.                                        *)
(***************************************************************************)
RATE_LIMIT_MAX_REQUESTS == 20

MapGet(m, k) == IF k \in DOMAIN m THEN m[k] ELSE Undef
MapSet(m, k, v) == [x \in (DOMAIN m) \cup {k} |-> IF x = k THEN v ELSE m[x]]

\* value || fallback, for a number or undefined
OrElse(v, fallback) == IF v = Undef \/ v = 0 THEN fallback ELSE v

\* A limiter that rejects only above the maximum (mutation).
checkRateLimitAbove(counts, pending, env, ip) ==
  IF env # "production" THEN [ok |-> TRUE, counts |-> counts, timers |-> pending]
  ELSE IF OrElse(MapGet(counts, ip), 0) > RATE_LIMIT_MAX_REQUESTS
       THEN [ok |-> FALSE, counts |-> counts, timers |-> pending]
       ELSE [ok |-> TRUE,
             counts |-> MapSet(counts, ip, OrElse(MapGet(counts, ip), 0) + 1),
             timers |-> MapSet(pending, ip, OrElse(MapGet(pending, ip), 0) + 1)]

checkRateLimit(counts, pending, env, ip) ==
  IF env # "production" THEN [ok |-> TRUE, counts |-> counts, timers |-> pending]
  ELSE LET currentCount == OrElse(MapGet(counts, ip), 0)
       IN IF currentCount >= RATE_LIMIT_MAX_REQUESTS
          THEN [ok |-> FALSE, counts |-> counts, timers |-> pending]
          ELSE [ok |-> TRUE, counts |-> MapSet(counts, ip, currentCount + 1),
                timers |-> MapSet(pending, ip, OrElse(MapGet(pending, ip), 0) + 1)]

\* The setTimeout callback
TimerCallback(counts, ip) == MapSet(counts, ip, OrElse(MapGet(counts, ip), 1) - 1)

(***************************************************************************)
(* Data URIs and base64.                                                   *)
(***************************************************************************)
K_imageDataUri == <<105, 109, 97, 103, 101, 68, 97, 116, 97, 85, 114, 105>>
DataImagePrefix == <<100, 97, 116, 97, 58, 105, 109, 97, 103, 101, 47>>
DataPrefix == <<100, 97, 116, 97, 58>>
Base64Marker == <<59, 98, 97, 115, 101, 54, 52, 44>>
ImagePng == <<105, 109, 97, 103, 101, 47, 112, 110, 103>>
Base64Alphabet ==
  <<65, 66, 67, 68, 69, 70, 71, 72, 73, 74, 75, 76, 77, 78,
    79, 80, 81, 82, 83, 84, 85, 86, 87, 88, 89, 90, 97, 98,
    99, 100, 101, 102, 103, 104, 105, 106, 107, 108, 109, 110, 111, 112,
    113, 114, 115, 116, 117, 118, 119, 120, 121, 122, 48, 49, 50, 51,
    52, 53, 54, 55, 56, 57, 43, 47>>
Base64Pad == 61   \* '='

\* The alphabet character of the 6-bit group j (0..3) of three bytes
Base64Digit(b1, b2, b3, j) ==
  Base64Alphabet[(((b1 * 65536 + b2 * 256 + b3) \div
                     (IF j = 0 THEN 262144 ELSE IF j = 1 THEN 4096
                      ELSE IF j = 2 THEN 64 ELSE 1)) % 64) + 1]

\* Character j (0..3) of the group that encodes the bytes from position p on
Base64Char(bytes, p, j) ==
  IF j > Len(bytes) - p + 1 THEN Base64Pad
  ELSE Base64Digit(bytes[p],
                   IF p + 1 <= Len(bytes) THEN bytes[p + 1] ELSE 0,
                   IF p + 2 <= Len(bytes) THEN bytes[p + 2] ELSE 0, j)

\* buffer.toString('base64')
Base64Encode(bytes) ==
  [k \in 1..(4 * ((Len(bytes) + 2) \div 3)) |->
     Base64Char(bytes, 3 * ((k - 1) \div 4) + 1, (k - 1) % 4)]

\* The place of a character in the alphabet, counted from 0: 'A'..'Z',
\* 'a'..'z', '0'..'9', '+', '/'
Base64Value(c) ==
  IF c >= 65 /\ c <= 90 THEN c - 65
  ELSE IF c >= 97 /\ c <= 122 THEN c - 71
  ELSE IF c >= 48 /\ c <= 57 THEN c + 4
  ELSE IF c = 43 THEN 62
  ELSE IF c = 47 THEN 63
  ELSE Undef

\* The number of leading characters of the text that are in the alphabet
Base64Prefix(text) ==
  IF \A i \in 1..Len(text) : Base64Value(text[i]) # Undef THEN Len(text)
  ELSE (CHOOSE i \in 1..Len(text) :
          /\ Base64Value(text[i]) = Undef
          /\ \A j \in 1..(i - 1) : Base64Value(text[j]) # Undef) - 1

\* Byte j (0..2) of the group of characters that starts at position p
Base64Byte(text, p, j) ==
  IF j = 0 THEN Base64Value(text[p]) * 4 + (Base64Value(text[p + 1]) \div 16)
  ELSE IF j = 1
  THEN (Base64Value(text[p + 1]) % 16) * 16 + (Base64Value(text[p + 2]) \div 4)
  ELSE (Base64Value(text[p + 2]) % 4) * 64 + Base64Value(text[p + 3])

\* Buffer.from(text, 'base64'): decoding stops at the padding or at the
\* first character outside the alphabet.
Base64Decode(text) ==
  [i \in 1..((Base64Prefix(text) * 6) \div 8) |->
     Base64Byte(text, 4 * ((i - 1) \div 3) + 1, (i - 1) % 3)]

\* text.indexOf(c), 0-based, -1 when absent
IndexOf(text, c) ==
  IF \E i \in 1..Len(text) : text[i] = c
  THEN (CHOOSE i \in 1..Len(text) : text[i] = c /\ \A j \in 1..(i - 1) : text[j] # c) - 1
  ELSE -1

StartsWith(text, prefix) ==
  Len(text) >= Len(prefix) /\ SubSeq(text, 1, Len(prefix)) = prefix

\* text.substring(from, to) for 0 <= from
Substring(text, from, to) == SubSeq(text, from + 1, Min(to, Len(text)))

\* text.split(',')[1]: undefined without a comma, else the text between the
\* first comma and the next one (or the end)
SplitSecond(text) ==
  LET c == IndexOf(text, 44)
  IN IF c = -1 THEN UndefinedV
     ELSE LET rest == SubSeq(text, c + 2, Len(text))
              d == IndexOf(rest, 44)
          IN IF d = -1 THEN rest ELSE SubSeq(rest, 1, d)

\* `data:${mimeType};base64,${bytes.toString('base64')}`
DataUri(mimeType, bytes) == DataPrefix \o mimeType \o Base64Marker \o Base64Encode(bytes)

(***************************************************************************)
(* Image files and sharp.  An image file is a header of four bytes (format *)
(* mark, width, height, and the channel count or the quality) followed by  *)
(* its samples.  Decoding a PNG returns its samples as they are; encoding  *)
(* a JPEG drops alpha and quantises every sample with a step that grows as *)
(* the quality falls, so that it is lossy at every quality below 100.      *)
(***************************************************************************)
PngMark == 137
JpegMark == 255
JpegDefaultQuality == 80

PngFile(width, height, channels, samples) == <<PngMark, width, height, channels>> \o samples

\* .ensureAlpha(): an opaque alpha sample for every pixel that has none
EnsureAlpha(pixels, channels) ==
  IF channels = 4 THEN pixels
  ELSE [i \in 1..((Len(pixels) \div 3) * 4) |->
          IF i % 4 = 0 THEN 255 ELSE pixels[((i - 1) \div 4) * 3 + ((i - 1) % 4) + 1]]

\* sharp(bytes).ensureAlpha().raw().toBuffer({ resolveWithObject: true });
\* rejects for bytes that are not an image.
SharpDecode(bytes) ==
  IF /\ Len(bytes) > 4
     /\ bytes[1] = PngMark
     /\ bytes[4] \in {3, 4}
     /\ Len(bytes) = 4 + bytes[2] * bytes[3] * bytes[4]
  THEN [threw |-> FALSE,
        data |-> EnsureAlpha(SubSeq(bytes, 5, Len(bytes)), bytes[4]),
        width |-> bytes[2], height |-> bytes[3], channels |-> 4]
  ELSE [threw |-> TRUE, data |-> <<>>, width |-> 0, height |-> 0, channels |-> 0]

JpegStep(quality) == ((100 - quality) \div 5) + 1
JpegQuantise(v, quality) ==
  Min(255, (v \div JpegStep(quality)) * JpegStep(quality) + (JpegStep(quality) \div 2))

\* sharp(pixels, { raw }).jpeg({ quality }).toBuffer()
JpegEncode(pixels, width, height, channels, quality) ==
  <<JpegMark, width, height, quality>>
    \o [i \in 1..(width * height * 3) |->
          JpegQuantise(pixels[((i - 1) \div 3) * channels + ((i - 1) % 3) + 1], quality)]

\* .extract({ left, top, width, height }).raw().toBuffer(); rejects for an
\* area that is not inside the image.
SharpExtract(pixels, width, height, channels, face) ==
  IF face.x < 0 \/ face.y < 0 \/ face.w < 1 \/ face.h < 1
       \/ face.x + face.w > width \/ face.y + face.h > height
  THEN [threw |-> TRUE, data |-> <<>>]
  ELSE [threw |-> FALSE,
        data |-> [i \in 1..(face.w * face.h * channels) |->
                    LET p == (i - 1) \div channels
                        px == face.x + (p % face.w)
                        py == face.y + (p \div face.w)
                    IN pixels[(py * width + px) * channels + ((i - 1) % channels) + 1]]]

\* .composite([{ input, left, top, raw }]).toBuffer().then(b => b.copy(pixels))
\* for an opaque input: the input replaces the area it covers.
SharpComposite(pixels, width, height, channels, input, face) ==
  [i \in 1..Len(pixels) |->
     LET p == (i - 1) \div channels
         px == p % width
         py == p \div width
     IN IF /\ px >= face.x /\ px < face.x + face.w
           /\ py >= face.y /\ py < face.y + face.h
        THEN input[((py - face.y) * face.w + (px - face.x)) * channels
                     + ((i - 1) % channels) + 1]
        ELSE pixels[i]]

(***************************************************************************)
(* calculateProtectionScore, in integer arithmetic: with n samples, the    *)
(* two metrics are maeSum / n and structSum / n, and                       *)
(* Math.round(q) = floor(q + 1/2).                                         *)
(***************************************************************************)
Abs(x) == IF x < 0 THEN -x ELSE x

RECURSIVE MaeSum(_, _, _)
MaeSum(a, b, i) ==
  IF i >= Len(a) THEN 0 ELSE Abs(a[i + 1] - b[i + 1]) + MaeSum(a, b, i + 1)

RECURSIVE StructuralSum(_, _, _)
StructuralSum(a, b, i) ==
  IF i >= Len(a) - 4 THEN 0
  ELSE Abs((a[i + 1] - a[i - 3]) - (b[i + 1] - b[i - 3])) + StructuralSum(a, b, i + 1)

calculateProtectionScore(originalPixels, protectedPixels) ==
  IF Len(originalPixels) # Len(protectedPixels) THEN 0
  ELSE IF Len(originalPixels) = 0 THEN Undef      \* 0 / 0: NaN all the way
  ELSE LET n == Len(originalPixels)
           pixelCorruption == 45 * Min(MaeSum(originalPixels, protectedPixels, 0), 20 * n)
           structuralDisruption ==
             55 * Min(StructuralSum(originalPixels, protectedPixels, 4), 20 * n)
           score == (2 * (pixelCorruption + structuralDisruption) + 20 * n) \div (40 * n)
       IN Max(85, Min(99, score + 40))

(***************************************************************************)
(* The steps of POST.                                                      *)
(***************************************************************************)
VersionText == <<54, 46, 48, 95, 114, 101, 118, 111, 108, 117, 116, 105, 111, 110,
    97, 114, 121, 95, 102, 97, 99, 101, 95, 97, 119, 97, 114, 101>>
Aggressive == <<97, 103, 103, 114, 101, 115, 115, 105, 118, 101>>
FaceSuffix == <<102, 97, 99, 101>>
FinalJpegQuality == 95

\* Step 3: the loop over faces.detections, from detection k on
RECURSIVE ShieldFaces(_, _, _, _, _, _, _)
ShieldFaces(pixels, width, height, channels, seed, detections, k) ==
  IF k > Len(detections) THEN [threw |-> FALSE, pixels |-> pixels]
  ELSE LET face == detections[k]
           faceBuffer == SharpExtract(pixels, width, height, channels, face)
       IN IF faceBuffer.threw THEN [threw |-> TRUE, pixels |-> pixels]
          ELSE LET shielded == applyAiShielding(faceBuffer.data, face.w, face.h,
                                                channels, seed \o FaceSuffix, "high")
               IN ShieldFaces(SharpComposite(pixels, width, height, channels,
                                             shielded.pixels, face),
                              width, height, channels, seed, detections, k + 1)

\* A receipt literal whose public_key is that of a key pair generated anew
\* for the request, from its seed (mutation).
InitialReceiptFreshKey(originalHash, seed, timestamp, publicKey, protectionScore, faces) ==
  << <<K_version, VersionText>>,
     <<K_owner, OWNER_ID>>,
     <<K_orig_sha256, originalHash>>,
     <<K_seed, seed>>,
     <<K_timestamp, Num(timestamp)>>,
     <<K_public_key, HexOf(Ed25519PublicKey(Sha256Digest(seed)))>>,
     <<K_protection_level, Aggressive>>,
     <<K_protection_score, Num(protectionScore)>>,
     <<K_faces_detected, Num(OrElse(Len(faces), 0))>>,
     <<K_final_sha256, Pending>>,
     <<K_signature, Pending>> >>

\* Step 5: the receipt as the object literal creates it
InitialReceipt(originalHash, seed, timestamp, publicKey, protectionScore, faces) ==
  << <<K_version, VersionText>>,
     <<K_owner, OWNER_ID>>,
     <<K_orig_sha256, originalHash>>,
     <<K_seed, seed>>,
     <<K_timestamp, Num(timestamp)>>,
     <<K_public_key, publicKey>>,
     <<K_protection_level, Aggressive>>,
     <<K_protection_score, Num(protectionScore)>>,
     <<K_faces_detected, Num(OrElse(Len(faces), 0))>>,
     <<K_final_sha256, Pending>>,
     <<K_signature, Pending>> >>

\* receipt.final_sha256 = sha256(shieldedImageForHash)
SetPreliminaryHash(receipt, shieldedImageForHash) ==
  SetField(receipt, K_final_sha256, sha256(shieldedImageForHash))

\* A step 8 that leaves the hash of the shielded-only image in the receipt
\* (mutation).
KeepPreliminaryHash(receipt, finalImageBytes) == receipt

\* Step 8: receipt.final_sha256 = sha256(finalImageBytes)
RecomputeFinalHash(receipt, finalImageBytes) ==
  SetField(receipt, K_final_sha256, sha256(finalImageBytes))

(***************************************************************************)
(* Pixel laboratory: one buffer, and the pixel routines called on it in    *)
(* any order with any of the seeds.                                        *)
(***************************************************************************)
Seed_ab == <<97, 98>>                       \* "ab"
Seed_abc123 == <<97, 98, 99, 49, 50, 51>>   \* "abc123"
LabSeeds == {Seed_ab, Seed_abc123}

SampleHash ==                   \* 'deadbeefcafebabe' four times over
  [i \in 1..64 |-> <<100, 101, 97, 100, 98, 101, 101, 102,
                     99, 97, 102, 101, 98, 97, 98, 101>>[((i - 1) % 16) + 1]]
LabReceipts == {<<<<K_seed, Seed_ab>>, <<K_final_sha256, SampleHash>>>>}

ChannelCounts == {2, 3, 4}
Aggressions == {"normal", "high"}

Uniform(n, v) == [i \in 1..n |-> v]
Gradient(n) == [i \in 1..n |-> (37 * i + 11) % 256]
LabBuffers(n) == {Uniform(n, 0), Uniform(n, 255), Gradient(n)}

\* The request handler is not part of this specification.
AppIdle == app = None /\ calls = None

PostIdle ==
  /\ envMasterKey = None /\ nodeEnv = None /\ MASTER_KEY = None
  /\ privateKey = None /\ publicKeyHex = None
  /\ ipRequestCounts = None /\ timers = None /\ reqs = None

\* A row and a column long enough for the shift of 3 to reach, from their
\* last pixel, a pixel that is not the first
LongShapes == {<<5, 1>>, <<1, 5>>}

LabInit ==
  /\ \/ \E w \in 1..MaxWidth, h \in 1..MaxHeight, c \in ChannelCounts :
          \E p \in LabBuffers(w * h * c) :
            /\ img = [pixels |-> p, width |-> w, height |-> h, channels |-> c]
            /\ orig = p
     \/ \E shape \in LongShapes :
          /\ img = [pixels |-> Gradient(shape[1] * shape[2] * 3),
                    width |-> shape[1], height |-> shape[2], channels |-> 3]
          /\ orig = Gradient(shape[1] * shape[2] * 3)
  /\ seedValue = 0
  /\ first = None
  /\ last = None
  /\ ncalls = 0
  /\ em = None /\ emBefore = None /\ ex = None
  /\ PostIdle
  /\ AppIdle

\* What a call did, as the laboratory records it
CallRecord(fn, seed, aggression, r) ==
  [fn |-> fn, before |-> img.pixels, seed |-> seed, aggression |-> aggression,
   after |-> r.pixels, threw |-> r.threw]

Remember(rec) ==
  /\ last' = rec
  /\ first' = IF first = None THEN rec ELSE first

\* The buffer is modified in place; the closure's accumulator is left behind.
Returned(fn, seed, aggression, r) ==
  /\ img' = [img EXCEPT !.pixels = r.pixels]
  /\ seedValue' = r.seedValue
  /\ Remember(CallRecord(fn, seed, aggression, r))

CallApplyAiShielding(seed, aggression) ==
  /\ ncalls < MaxCalls
  /\ Returned("applyAiShielding", seed, aggression,
              applyAiShielding(img.pixels, img.width, img.height, img.channels,
                               seed, aggression))
  /\ ncalls' = ncalls + 1
  /\ UNCHANGED <<appVars, orig, embedVars, postVars>>

\* POST calls the embedder on the 4-channel buffer sharp returned.
CallEmbedInvisibleWatermark(receipt) ==
  /\ ncalls < MaxCalls
  /\ img.channels = 4
  /\ Returned("embedInvisibleWatermark", Field(receipt, K_seed), "none",
              embedInvisibleWatermark(img.pixels, img.width, img.height, receipt))
  /\ ncalls' = ncalls + 1
  /\ UNCHANGED <<appVars, orig, embedVars, postVars>>

\* The buffers calculateProtectionScore is given as originalPixels, next to
\* the current buffer as protectedPixels: the contents the buffer started
\* with, and a buffer one sample shorter
ScoreOriginals == {orig, SubSeq(orig, 1, Len(orig) - 1)}

\* calculateProtectionScore reads both buffers and returns a number.  POST
\* calls it on what applyAiShielding left.
CallCalculateProtectionScore(originalPixels) ==
  /\ last # None
  /\ last.fn = "applyAiShielding"
  /\ last' = [fn |-> "calculateProtectionScore", before |-> originalPixels,
              seed |-> <<>>, aggression |-> "none", after |-> img.pixels,
              threw |-> FALSE,
              score |-> calculateProtectionScore(originalPixels, img.pixels)]
  /\ UNCHANGED <<appVars, img, orig, seedValue, first, ncalls, embedVars, postVars>>

\* A second buffer with the contents the first one started with.
Reload ==
  /\ ncalls > 0
  /\ img.pixels # orig
  /\ img' = [img EXCEPT !.pixels = orig]
  /\ UNCHANGED <<appVars, orig, seedValue, first, last, ncalls, embedVars, postVars>>

LabNext ==
  \/ \E seed \in LabSeeds, aggression \in Aggressions :
       CallApplyAiShielding(seed, aggression)
  \/ \E receipt \in LabReceipts : CallEmbedInvisibleWatermark(receipt)
  \/ \E originalPixels \in ScoreOriginals : CallCalculateProtectionScore(originalPixels)
  \/ Reload

LabSpec == LabInit /\ [][LabNext]_vars

(***************************************************************************)
(* Specification of one embedInvisibleWatermark call, iteration by         *)
(* iteration, and of the extraction that replays it.                       *)
(***************************************************************************)
MaxRepeats == 1      \* repeated calls on the same buffer

EmbedReceipts ==
  {<<<<K_seed, s>>, <<K_final_sha256, f>>>> : s \in LabSeeds, f \in {Pending, SampleHash}}

EmbedInit ==
  /\ \E receipt \in EmbedReceipts :
       \/ \E w \in 1..MaxWidth, h \in 1..MaxHeight :
            \E p \in LabBuffers(w * h * 4) :
              /\ em = EmbedStart(p, w, h, receipt)
              /\ emBefore = p
       \/ \E shape \in BigShapes :
            /\ em = EmbedStart(Gradient(shape[1] * shape[2] * 4), shape[1], shape[2],
                               receipt)
            /\ emBefore = Gradient(shape[1] * shape[2] * 4)
  /\ ex = None
  /\ img = None /\ orig = None /\ seedValue = 0
  /\ first = None /\ last = None /\ ncalls = 0
  /\ PostIdle
  /\ AppIdle

EmbedStep ==
  /\ em.pc = "loop"
  /\ em' = EmbedIter(em)
  /\ UNCHANGED <<appVars, emBefore, ex, labVars, postVars>>

\* The loop runs on for up to 64 iterations
EmbedBurst ==
  /\ em.pc = "loop"
  /\ em' = EmbedBlock(em, 6)
  /\ UNCHANGED <<appVars, emBefore, ex, labVars, postVars>>

ExtractBegin ==
  /\ em.pc = "done"
  /\ ex = None
  /\ ex' = ExtractStart(em.pixels, em.totalPixels, em.seed,
                        WatermarkLength(em.text))
  /\ UNCHANGED <<appVars, em, emBefore, labVars, postVars>>

ExtractStep ==
  /\ ex # None
  /\ ex.pc = "loop"
  /\ ex' = ExtractIter(ex)
  /\ UNCHANGED <<appVars, em, emBefore, labVars, postVars>>

ExtractBurst ==
  /\ ex # None
  /\ ex.pc = "loop"
  /\ ex' = ExtractBlock(ex, 6)
  /\ UNCHANGED <<appVars, em, emBefore, labVars, postVars>>

\* embedInvisibleWatermark is called once more, on the buffer the first
\* call left, with the same receipt
EmbedAgain ==
  /\ em.pc = "done"
  /\ ex = None
  /\ ncalls < MaxRepeats
  /\ em' = EmbedState(em.pixels, em.totalPixels, em.text, em.seed)
  /\ emBefore' = em.pixels
  /\ ncalls' = ncalls + 1
  /\ UNCHANGED <<appVars, ex, img, orig, seedValue, first, last, postVars>>

EmbedNext ==
  \/ EmbedStep \/ EmbedBurst \/ EmbedAgain
  \/ ExtractBegin \/ ExtractStep \/ ExtractBurst

EmbedSpec == EmbedInit /\ [][EmbedNext]_vars

(***************************************************************************)
(* Specification of the request handler: the module is loaded, then POST   *)
(* invocations run, each from one await to the next, in any interleaving.  *)
(***************************************************************************)
MaxRequests == 2

Requests == 1..MaxRequests
DefaultIp == "127.0.0.1"
ClockReadings == {1000}     \* Date.now(), in milliseconds of the model's epoch

Png2x1 == PngFile(2, 1, 3, Gradient(6))       \* an RGB image of 2 x 1 pixels
NotAnImage == <<1, 2, 3>>

\* The parsed JSON bodies: without imageDataUri, with an image, with bytes
\* that are no image
Bodies ==
  {<<>>} \cup {<< <<K_imageDataUri, DataUri(ImagePng, f)>> >> : f \in {Png2x1, NotAnImage}}

\* What detectFaces resolves to: no detection (also its answer on failure),
\* or one face in the top left corner
Detections == {<<>>, <<[x |-> 0, y |-> 0, w |-> 1, h |-> 1]>>}

NoResponse == [status |-> 0]
ErrorResponse(status, error) == [status |-> status, error |-> error]

NewRequest ==
  [pc |-> "new", mimeType |-> <<>>, originalImageBuffer |-> <<>>,
   originalHash |-> <<>>, seed |-> <<>>, timestamp |-> 0, detections |-> <<>>,
   width |-> 0, height |-> 0, channels |-> 0, originalPixels |-> <<>>,
   shieldedPixels |-> <<>>, preWatermarkPixels |-> <<>>, protectionScore |-> 0,
   receipt |-> <<>>,
   shieldedImageForHash |-> <<>>, preliminaryHash |-> <<>>, bitsWritten |-> 0,
   finalImageBytes |-> <<>>, signedMessage |-> <<>>, response |-> NoResponse]

PostInit ==
  /\ envMasterKey \in {UndefinedV, ConfiguredMasterKey}
  /\ nodeEnv \in {"production", "development"}
  /\ MASTER_KEY = MasterKeyOf(envMasterKey)
  /\ \E forgeWorks \in BOOLEAN :
       /\ privateKey = KeySetup(MASTER_KEY, forgeWorks).privateKey
       /\ publicKeyHex = KeySetup(MASTER_KEY, forgeWorks).publicKeyHex
  /\ ipRequestCounts = <<>>
  /\ timers = <<>>
  /\ reqs = [id \in Requests |-> NewRequest]
  /\ img = None /\ orig = None /\ seedValue = 0
  /\ first = None /\ last = None /\ ncalls = 0
  /\ em = None /\ emBefore = None /\ ex = None
  /\ AppIdle

\* An answer built in one module-level response object, which the answers
\* already given with HTTP 200 share (mutation).
RespondShared(id, fields, response) ==
  reqs' = [i \in Requests |->
             IF i = id THEN [fields EXCEPT !.pc = "done", !.response = response]
             ELSE IF reqs[i].pc = "done" /\ reqs[i].response.status = 200
                  THEN [reqs[i] EXCEPT !.response = response]
                  ELSE reqs[i]]

Respond(id, fields, response) ==
  reqs' = [reqs EXCEPT ![id] = [fields EXCEPT !.pc = "done", !.response = response]]

\* POST up to `await req.json()`: req.ip ?? '127.0.0.1' and checkRateLimit
Receive(id) ==
  /\ reqs[id].pc = "new"
  /\ \A earlier \in 1..(id - 1) : reqs[earlier].pc # "new"   \* numbered as they arrive
  /\ LET ip == DefaultIp
         rl == checkRateLimit(ipRequestCounts, timers, nodeEnv, ip)
     IN /\ ipRequestCounts' = rl.counts
        /\ timers' = rl.timers
        /\ IF ~rl.ok
           THEN Respond(id, reqs[id],
                        ErrorResponse(429, "Too many requests. Please try again later."))
           ELSE reqs' = [reqs EXCEPT ![id].pc = "body"]
  /\ UNCHANGED <<appVars, labVars, embedVars, moduleVars>>

\* From the parsed body to `await detectFaces(...)`
ParseBody(id, body, now) ==
  /\ reqs[id].pc = "body"
  /\ LET imageDataUri == Field(body, K_imageDataUri)
     IN IF imageDataUri = UndefinedV \/ imageDataUri = <<>>
             \/ ~StartsWith(imageDataUri, DataImagePrefix)
        THEN Respond(id, reqs[id], ErrorResponse(400, "Invalid image data URI provided."))
        ELSE LET mimeType == Substring(imageDataUri, IndexOf(imageDataUri, 58) + 1,
                                       IndexOf(imageDataUri, 59))
                 base64Data == SplitSecond(imageDataUri)
             IN IF base64Data = UndefinedV \/ base64Data = <<>>
                THEN Respond(id, reqs[id],
                             ErrorResponse(400, "Could not extract image data from URI."))
                ELSE LET originalImageBuffer == Base64Decode(base64Data)
                     IN reqs' = [reqs EXCEPT ![id] =
                                   [@ EXCEPT !.pc = "faces",
                                             !.mimeType = mimeType,
                                             !.originalImageBuffer = originalImageBuffer,
                                             !.originalHash = sha256(originalImageBuffer),
                                             !.seed = deriveSeed(MASTER_KEY, now,
                                                                 RandomBytes(id)),
                                             !.timestamp = now]]
  /\ UNCHANGED <<appVars, labVars, embedVars, moduleVars, ipRequestCounts, timers>>

ProcessingFailed == "Image processing failed"

\* From the face detections to `await sharp(...).jpeg().toBuffer()` of
\* step 6: decode, shield, shield the faces, score, create the receipt
ShieldStep(id, detections) ==
  /\ reqs[id].pc = "faces"
  /\ LET r == reqs[id]
         decoded == SharpDecode(r.originalImageBuffer)
     IN IF decoded.threw
        THEN Respond(id, r, ErrorResponse(500, ProcessingFailed))
        ELSE
          LET width == decoded.width
              height == decoded.height
              channels == decoded.channels
              whole == applyAiShielding(decoded.data, width, height, channels,
                                        r.seed, "normal")
              faces == IF Len(detections) > 0
                       THEN ShieldFaces(whole.pixels, width, height, channels, r.seed,
                                        detections, 1)
                       ELSE [threw |-> FALSE, pixels |-> whole.pixels]
          IN IF faces.threw
             THEN Respond(id, r, ErrorResponse(500, ProcessingFailed))
             ELSE
               LET protectionScore == calculateProtectionScore(decoded.data, faces.pixels)
               IN reqs' = [reqs EXCEPT ![id] =
                    [r EXCEPT !.pc = "embed",
                              !.detections = detections,
                              !.width = width, !.height = height, !.channels = channels,
                              !.originalPixels = decoded.data,
                              !.shieldedPixels = faces.pixels,
                              !.protectionScore = protectionScore,
                              !.receipt = InitialReceipt(r.originalHash, r.seed,
                                            r.timestamp, publicKeyHex, protectionScore,
                                            detections),
                              !.shieldedImageForHash =
                                 JpegEncode(faces.pixels, width, height, channels,
                                            JpegDefaultQuality)]]
  /\ UNCHANGED <<appVars, labVars, embedVars, moduleVars, ipRequestCounts, timers>>

\* From the preliminary hash to the response: embed, encode, hash, sign
FinishStep(id) ==
  /\ reqs[id].pc = "embed"
  /\ LET r == reqs[id]
         hashed == SetPreliminaryHash(r.receipt, r.shieldedImageForHash)
         embedded == embedInvisibleWatermark(r.shieldedPixels, r.width, r.height, hashed)
         finalImageBytes == JpegEncode(embedded.pixels, r.width, r.height, r.channels,
                                       FinalJpegQuality)
         final == RecomputeFinalHash(hashed, finalImageBytes)
         signed == signPayload(final, privateKey)
         fields == [r EXCEPT !.preliminaryHash = Field(hashed, K_final_sha256),
                             !.preWatermarkPixels = r.shieldedPixels,
                             !.shieldedPixels = embedded.pixels,
                             !.bitsWritten = embedded.bitsWritten,
                             !.finalImageBytes = finalImageBytes,
                             !.receipt = final]
     IN IF signed.threw
        THEN Respond(id, fields, ErrorResponse(500, ProcessingFailed))
        ELSE LET receipt == SetField(final, K_signature, signed.signature)
             IN Respond(id, [fields EXCEPT !.receipt = receipt,
                                           !.signedMessage = signed.message],
                        [status |-> 200,
                         processedImageUri |-> DataUri(r.mimeType, finalImageBytes),
                         hash |-> Field(receipt, K_final_sha256),
                         receipt |-> receipt,
                         protectionScore |-> r.protectionScore,
                         facesDetected |-> Len(r.detections) > 0])
  /\ UNCHANGED <<appVars, labVars, embedVars, moduleVars, ipRequestCounts, timers>>

\* A setTimeout callback of checkRateLimit runs
TimerFires(ip) ==
  /\ ip \in DOMAIN timers
  /\ timers[ip] > 0
  /\ timers' = [timers EXCEPT ![ip] = @ - 1]
  /\ ipRequestCounts' = TimerCallback(ipRequestCounts, ip)
  /\ UNCHANGED <<appVars, labVars, embedVars, moduleVars, reqs>>

PostNext ==
  \/ \E id \in Requests : Receive(id)
  \/ \E id \in Requests, body \in Bodies, now \in ClockReadings : ParseBody(id, body, now)
  \/ \E id \in Requests, detections \in Detections : ShieldStep(id, detections)
  \/ \E id \in Requests : FinishStep(id)
  \/ TimerFires(DefaultIp)

PostSpec == PostInit /\ [][PostNext]_vars


(***************************************************************************)
(* The two-pass variant of the request handler (src/unnamed/part_004).     *)
(* Its module state, sha256, signPayload and checkRateLimit are those of   *)
(* route.ts; it calls the flow functions applyAiShielding(buffer, seed)    *)
(* and embedInvisibleWatermark(buffer, receipt)                            *)
(* (src/src/ai/flows/embed-invisible-watermark.ts), which take and return  *)
(* encoded image files.                                                    *)
(***************************************************************************)
TwoPassOwnerId ==       \* 'FaceGuardUser'
  <<70, 97, 99, 101, 71, 117, 97, 114, 100, 85, 115, 101, 114>>
TwoPassVersion == <<51, 46, 48>>                        \* '3.0'
Strong == <<115, 116, 114, 111, 110, 103>>              \* 'strong'
FlowSignature == <<70, 71, 118, 51>>                    \* 'FGv3'
LosslessQuality == 100

\* deriveSeed() of part_004
TwoPassDeriveSeed(masterKey, now, random) ==
  HmacSha256(masterKey,
             Decimal(now) \o <<124>> \o HexOf(random) \o <<124>> \o TwoPassOwnerId)

\* Jimp.read(buffer): the RGBA bitmap of an encoded image; rejects for bytes
\* that are not an image.
JimpRead(bytes) ==
  IF /\ Len(bytes) > 4
     /\ bytes[1] = JpegMark
     /\ Len(bytes) = 4 + bytes[2] * bytes[3] * 3
  THEN [threw |-> FALSE, width |-> bytes[2], height |-> bytes[3],
        data |-> EnsureAlpha(SubSeq(bytes, 5, Len(bytes)), 3)]
  ELSE [threw |-> TRUE, width |-> 0, height |-> 0, data |-> <<>>]

\* `${signature}::${receipt.seed}::${receipt.final_sha256.substring(0, 16)}`
FlowWatermarkText(receipt) ==
  FlowSignature \o Sep \o Field(receipt, K_seed) \o Sep
    \o SubSeq(Field(receipt, K_final_sha256), 1,
              Min(16, Len(Field(receipt, K_final_sha256))))

\* The flow's embedding loop on a bitmap that holds the payload.  The flow
\* has neither the bounds test nor the safety break of route.ts; on an RGBA
\* bitmap of width*height pixels whose capacity is at least the payload
\* length neither of them ever fires, and getPixelIndex(x, y) is pixelNum * 4,
\* so the loop is the one of EmbedRun.
FlowEmbedPixels(image, receipt) ==
  EmbedRun(EmbedState(image.data, image.width * image.height,
                      FlowWatermarkText(receipt), Field(receipt, K_seed))).pixels

FlowEncoded(image, receipt, quality) ==
  IF WatermarkLength(FlowWatermarkText(receipt)) > image.width * image.height * 3
  THEN [threw |-> TRUE, bytes |-> <<>>]
  ELSE [threw |-> FALSE,
        bytes |-> JpegEncode(FlowEmbedPixels(image, receipt), image.width,
                             image.height, 4, quality)]

\* embedInvisibleWatermark(inputBuffer, receipt) of the flow: decode, throw
\* when the image is too small, embed, encode as JPEG.  quality is the
\* quality at which the encoder of Jimp writes the file.
FlowEmbedInvisibleWatermark(inputBuffer, receipt, quality) ==
  IF JimpRead(inputBuffer).threw THEN [threw |-> TRUE, bytes |-> <<>>]
  ELSE FlowEncoded(JimpRead(inputBuffer), receipt, quality)

\* Step 2: the preliminary receipt
TwoPassReceipt(originalHash, seed, timestamp, publicKey) ==
  << <<K_version, TwoPassVersion>>,
     <<K_owner, TwoPassOwnerId>>,
     <<K_orig_sha256, originalHash>>,
     <<K_seed, seed>>,
     <<K_timestamp, Num(timestamp)>>,
     <<K_public_key, publicKey>>,
     <<K_protection_level, Strong>> >>

\* A handler whose test of the verification hash never fires (mutation).
CorrectMismatchNever(receipt, finalVerificationHash, keyPair) ==
  [threw |-> FALSE, receipt |-> receipt, resigns |-> 0]

\* l.164-169: when the hash of the final bytes differs from
\* receipt.final_sha256, take the hash of the final bytes and sign again
CorrectMismatch(receipt, finalVerificationHash, keyPair) ==
  IF finalVerificationHash # Field(receipt, K_final_sha256)
  THEN [threw |-> signPayload(SetField(receipt, K_final_sha256, finalVerificationHash),
                              keyPair).threw,
        receipt |-> SetField(SetField(receipt, K_final_sha256, finalVerificationHash),
                             K_signature,
                             signPayload(SetField(receipt, K_final_sha256,
                                                  finalVerificationHash),
                                         keyPair).signature),
        resigns |-> 1]
  ELSE [threw |-> FALSE, receipt |-> receipt, resigns |-> 0]

(***************************************************************************)
(* Specification of the two-pass handler: the module is loaded, then its   *)
(* POST invocations run, each from one await to the next.                  *)
(***************************************************************************)
TwoPassBodies == {<<>>, << <<K_imageDataUri, DataUri(ImagePng, Png2x1)>> >>}

\* What applyAiShielding(imageBuffer, seed) resolves to: the JPEG file of
\* an image of 16 x 16 pixels, which holds both payloads, or of 16 x 14
\* pixels, which holds the placeholder payload only
ShieldedBuffers ==
  {JpegEncode(Gradient(16 * h * 4), 16, h, 4, FinalJpegQuality) : h \in {14, 16}}

\* The qualities at which the encoder writes the watermarked file: one that
\* keeps every sample, one that drops the least significant bits
EncoderQualities == {LosslessQuality, FinalJpegQuality}

NewTwoPassRequest ==
  [pc |-> "new", mimeType |-> <<>>, imageBuffer |-> <<>>, originalHash |-> <<>>,
   seed |-> <<>>, timestamp |-> 0, shieldedBuffer |-> <<>>, quality |-> 0,
   receipt |-> <<>>, preWatermarkedBuffer |-> <<>>, finalHash |-> <<>>,
   finalImageBytes |-> <<>>, signs |-> 0, response |-> NoResponse]

TwoPassInit ==
  /\ envMasterKey = ConfiguredMasterKey
  /\ nodeEnv = "production"
  /\ MASTER_KEY = MasterKeyOf(envMasterKey)
  /\ \E forgeWorks \in BOOLEAN :
       /\ privateKey = KeySetup(MASTER_KEY, forgeWorks).privateKey
       /\ publicKeyHex = KeySetup(MASTER_KEY, forgeWorks).publicKeyHex
  /\ ipRequestCounts = <<>>
  /\ timers = <<>>
  /\ reqs = [id \in Requests |-> NewTwoPassRequest]
  /\ img = None /\ orig = None /\ seedValue = 0
  /\ first = None /\ last = None /\ ncalls = 0
  /\ em = None /\ emBefore = None /\ ex = None
  /\ AppIdle

\* l.101-121: from the parsed body to `await applyAiShielding(...)`
TwoPassParse(id, body, now) ==
  /\ reqs[id].pc = "body"
  /\ LET imageDataUri == Field(body, K_imageDataUri)
     IN IF imageDataUri = UndefinedV \/ imageDataUri = <<>>
             \/ ~StartsWith(imageDataUri, DataImagePrefix)
        THEN Respond(id, reqs[id], ErrorResponse(400, "Invalid image data URI provided."))
        ELSE IF SplitSecond(imageDataUri) = UndefinedV \/ SplitSecond(imageDataUri) = <<>>
        THEN Respond(id, reqs[id],
                     ErrorResponse(400, "Could not extract image data from URI."))
        ELSE reqs' = [reqs EXCEPT ![id] =
                        [@ EXCEPT !.pc = "shield",
                                  !.mimeType = Substring(imageDataUri,
                                                         IndexOf(imageDataUri, 58) + 1,
                                                         IndexOf(imageDataUri, 59)),
                                  !.imageBuffer = Base64Decode(SplitSecond(imageDataUri)),
                                  !.originalHash =
                                     sha256(Base64Decode(SplitSecond(imageDataUri))),
                                  !.seed = TwoPassDeriveSeed(MASTER_KEY, now,
                                                             RandomBytes(id)),
                                  !.timestamp = now]]
  /\ UNCHANGED <<appVars, labVars, embedVars, moduleVars, ipRequestCounts, timers>>

\* l.121-138: applyAiShielding has rejected, or has resolved to a shielded
\* file; then the preliminary receipt is created and pass 1 begins
TwoPassShield(id, threw, shieldedBuffer, quality) ==
  /\ reqs[id].pc = "shield"
  /\ IF threw
     THEN Respond(id, reqs[id], ErrorResponse(500, ProcessingFailed))
     ELSE reqs' = [reqs EXCEPT ![id] =
                     [@ EXCEPT !.pc = "pass1",
                               !.shieldedBuffer = shieldedBuffer,
                               !.quality = quality,
                               !.receipt = TwoPassReceipt(reqs[id].originalHash,
                                                          reqs[id].seed,
                                                          reqs[id].timestamp,
                                                          publicKeyHex)]]
  /\ UNCHANGED <<appVars, labVars, embedVars, moduleVars, ipRequestCounts, timers>>

\* l.138-150 for the file that pass 1 resolved to
TwoPassSignFirst(id, pre) ==
  LET r == reqs[id]
      hashed == SetField(r.receipt, K_final_sha256, sha256(pre.bytes))
      signed == signPayload(hashed, privateKey)
  IN IF pre.threw \/ signed.threw
     THEN Respond(id, r, ErrorResponse(500, ProcessingFailed))
     ELSE reqs' = [reqs EXCEPT ![id] =
                     [r EXCEPT !.pc = "pass2",
                               !.preWatermarkedBuffer = pre.bytes,
                               !.finalHash = Field(hashed, K_final_sha256),
                               !.receipt = SetField(hashed, K_signature,
                                                    signed.signature),
                               !.signs = 1]]

\* l.138-155: pass 1 has resolved; hash it, sign the receipt, begin pass 2
TwoPassEmbedOne(id) ==
  /\ reqs[id].pc = "pass1"
  /\ \E pre \in {FlowEmbedInvisibleWatermark(
                    reqs[id].shieldedBuffer,
                    SetField(reqs[id].receipt, K_final_sha256, Pending),
                    reqs[id].quality)} :
       TwoPassSignFirst(id, pre)
  /\ UNCHANGED <<appVars, labVars, embedVars, moduleVars, ipRequestCounts, timers>>

\* l.158-176 for the file that pass 2 resolved to
TwoPassVerify(id, final) ==
  LET r == reqs[id]
  IN IF final.threw
     THEN Respond(id, r, ErrorResponse(500, ProcessingFailed))
     ELSE \E corrected \in {CorrectMismatch(r.receipt, sha256(final.bytes),
                                              privateKey)} :
            IF corrected.threw
            THEN Respond(id, r, ErrorResponse(500, ProcessingFailed))
            ELSE Respond(id, [r EXCEPT !.finalImageBytes = final.bytes,
                                       !.receipt = corrected.receipt,
                                       !.signs = r.signs + corrected.resigns],
                         [status |-> 200,
                          processedImageUri |-> DataUri(r.mimeType, final.bytes),
                          hash |-> Field(corrected.receipt, K_final_sha256),
                          receipt |-> corrected.receipt])

\* l.155-176: pass 2 has resolved; verify the hash, correct it, respond
TwoPassFinish(id) ==
  /\ reqs[id].pc = "pass2"
  /\ \E final \in {FlowEmbedInvisibleWatermark(reqs[id].shieldedBuffer,
                                                reqs[id].receipt,
                                                reqs[id].quality)} :
       TwoPassVerify(id, final)
  /\ UNCHANGED <<appVars, labVars, embedVars, moduleVars, ipRequestCounts, timers>>

\* A request arrives.  The clients of this specification send a request
\* once the one before it has been answered.
TwoPassReceive(id) ==
  /\ \A other \in Requests \ {id} : reqs[other].pc \in {"new", "done"}
  /\ Receive(id)

TwoPassNext ==
  \/ \E id \in Requests : TwoPassReceive(id)
  \/ \E id \in Requests, body \in TwoPassBodies, now \in ClockReadings :
       TwoPassParse(id, body, now)
  \/ \E id \in Requests, buffer \in ShieldedBuffers, quality \in EncoderQualities :
       TwoPassShield(id, FALSE, buffer, quality)
  \/ \E id \in Requests : TwoPassShield(id, TRUE, <<>>, LosslessQuality)
  \/ \E id \in Requests : TwoPassEmbedOne(id)
  \/ \E id \in Requests : TwoPassFinish(id)
  \/ TimerFires(DefaultIp)

TwoPassSpec == TwoPassInit /\ [][TwoPassNext]_vars
(***************************************************************************)
(* Specification of the rate limiter: checkRateLimit is called for one of  *)
(* two addresses, and the callbacks it scheduled run, in any order.        *)
(***************************************************************************)
OtherIp == "10.0.0.2"
Ips == {DefaultIp, OtherIp}

RateInit ==
  /\ nodeEnv \in {"production", "development"}
  /\ ipRequestCounts = <<>>
  /\ timers = <<>>
  /\ last = None
  /\ envMasterKey = None /\ MASTER_KEY = None
  /\ privateKey = None /\ publicKeyHex = None /\ reqs = None
  /\ img = None /\ orig = None /\ seedValue = 0
  /\ first = None /\ ncalls = 0
  /\ em = None /\ emBefore = None /\ ex = None
  /\ AppIdle

\* checkRateLimit(ip) is called and returns; the call is remembered
CallCheckRateLimit(ip) ==
  /\ \E rl \in {checkRateLimit(ipRequestCounts, timers, nodeEnv, ip)} :
       /\ ipRequestCounts' = rl.counts
       /\ timers' = rl.timers
       /\ last' = [fn |-> "checkRateLimit", ip |-> ip, ok |-> rl.ok]
  /\ UNCHANGED <<appVars, img, orig, seedValue, first, ncalls, embedVars, moduleVars, reqs>>

RateNext ==
  \/ \E ip \in Ips : CallCheckRateLimit(ip)
  \/ \E ip \in Ips : TimerFires(ip)

RateSpec == RateInit /\ [][RateNext]_vars

(***************************************************************************)
(* Specification of the placement loops of both embedInvisibleWatermark    *)
(* functions, one iteration per step, with the loop scheduled fairly: a    *)
(* call that is inside its loop goes on to the next iteration.             *)
(***************************************************************************)
Variants == {"route", "flow"}

\* The body of the flow's loop for the drawn pixelNum and channelNum: a used
\* index is skipped with `continue`; there is no bounds test and no safety
\* break, the only loop test is bitIndex < watermarkBinary.length
FlowDraw(e, pixelNum, channelNum) ==
  IF (pixelNum * 3 + channelNum) \in e.usedIndices
  THEN [e EXCEPT !.seedValue = e.seedValue + 2]
  ELSE [EmbedWrite(e, pixelNum * 3 + channelNum, pixelNum * 4 + channelNum)
          EXCEPT !.pc = IF e.bitIndex + 1 < WatermarkLength(e.text)
                        THEN "loop" ELSE "done"]

FlowIter(e) ==
  FlowDraw(e, RandFloor(e.seedValue, e.totalPixels), RandFloor(e.seedValue + 1, 3))

\* The flow's call up to its loop: it throws before the loop when the
\* payload is longer than the capacity
FlowStart(pixels, width, height, receipt) ==
  IF WatermarkLength(FlowWatermarkText(receipt)) > width * height * 3
  THEN [EmbedState(pixels, width * height, FlowWatermarkText(receipt),
                   Field(receipt, K_seed)) EXCEPT !.pc = "threw"]
  ELSE EmbedState(pixels, width * height, FlowWatermarkText(receipt),
                  Field(receipt, K_seed))

\* The call of either function up to its loop
VariantStart(variant, pixels, width, height, receipt) ==
  [variant |-> variant] @@
    (IF variant = "route" THEN EmbedStart(pixels, width, height, receipt)
     ELSE FlowStart(pixels, width, height, receipt))

EmbedFairInit ==
  /\ \E receipt \in EmbedReceipts, variant \in Variants :
       \/ \E w \in 1..MaxWidth, h \in 1..MaxHeight :
            \E p \in LabBuffers(w * h * 4) :
              /\ em = VariantStart(variant, p, w, h, receipt)
              /\ emBefore = p
       \/ \E shape \in BigShapes :
            /\ em = VariantStart(variant, Gradient(shape[1] * shape[2] * 4),
                                 shape[1], shape[2], receipt)
            /\ emBefore = Gradient(shape[1] * shape[2] * 4)
  /\ ex = None
  /\ img = None /\ orig = None /\ seedValue = 0
  /\ first = None /\ last = None /\ ncalls = 0
  /\ PostIdle
  /\ AppIdle

\* One pass through the body of the while loop of the function that runs
LoopStep ==
  /\ em.pc = "loop"
  /\ em' = IF em.variant = "route" THEN EmbedIter(em) ELSE FlowIter(em)
  /\ UNCHANGED <<appVars, emBefore, ex, labVars, postVars>>

EmbedFairNext == LoopStep

EmbedFairSpec == EmbedFairInit /\ [][EmbedFairNext]_vars /\ WF_vars(LoopStep)

(***************************************************************************)
(* FaceGuardApp (src/components/faceguard-app.tsx): the state of the       *)
(* component, its event handlers and the processFile promises in flight.   *)
(* JavaScript runs each handler to completion; the continuation of an      *)
(* await is a job that runs before the next event is delivered.  The       *)
(* progress animation (currentStep), the preview URL and the toast are     *)
(* left out: no handler reads them.                                        *)
(***************************************************************************)
Null == [null |-> TRUE]
Missing == [undefined |-> TRUE]        \* a property the response does not have
Number(n) == [number |-> n]

Portrait == [name |-> "portrait", ext |-> "png", mime |-> "image"]
Clip == [name |-> "clip", ext |-> "mp4", mime |-> "video"]
Files == {Portrait, Clip}

ProtectionTypes == {"image", "video"}

\* protectionScore values the image endpoint may send; the video endpoint
\* sends none
ResponseScores == {0, 92}

Message(text) == [message |-> text]

\* The useState initial values
InitialApp ==
  [file |-> Null, appState |-> "idle", protectionType |-> "image",
   processedImageUri |-> Null, processedVideoUri |-> Null, fileHash |-> Null,
   protectionScore |-> Null, error |-> Null, fileName |-> "protected_file"]

\* resetState
resetState(a) ==
  [a EXCEPT !.file = Null, !.appState = "idle", !.processedImageUri = Null,
            !.processedVideoUri = Null, !.fileHash = Null, !.error = Null,
            !.protectionScore = Null]

\* handleTabChange(value)
handleTabChange(a, value) == [resetState(a) EXCEPT !.protectionType = value]

\* validateFile of the uploader rendered for the protection type: a file of
\* another kind is reported as null
ValidatedFile(a, f) == IF f.mime = a.protectionType THEN f ELSE Null

\* handleFileChange(selectedFile)
handleFileChange(a, selectedFile) ==
  IF selectedFile # Null
  THEN [resetState(a) EXCEPT !.file = selectedFile,
                             !.fileName = selectedFile.name,
                             !.appState = "file-loaded"]
  ELSE [resetState(a) EXCEPT !.appState = "idle"]

\* handleProcessImage / handleProcessVideo up to the await
BeginProcessing(a) == [a EXCEPT !.appState = "processing", !.error = Null]

\* The processFile call of the handler for protection type `kind`, with the
\* file and the protectionType of the render whose handler was clicked
NewCall(a, kind) ==
  [file |-> a.file, kind |-> kind, protectionType |-> a.protectionType,
   endpoint |-> IF kind = "image" THEN "/api/protect" ELSE "/api/protect-video",
   stage |-> "reading", value |-> Null, reason |-> Null]

\* The body of a 2xx response to call number i
ResponseData(call, i, score) ==
  [processedUri |-> [endpoint |-> call.endpoint, of |-> call.file, request |-> i],
   hash |-> [sha256 |-> call.file, request |-> i],
   protectionScore |-> IF call.kind = "image" THEN Number(score) ELSE Missing]

\* resolve({processedUri, hash, protectionScore: data.protectionScore || null})
Resolved(data) ==
  [processedUri |-> data.processedUri, hash |-> data.hash,
   protectionScore |-> IF data.protectionScore = Missing
                          \/ data.protectionScore = Number(0)
                       THEN Null ELSE data.protectionScore]

FetchOutcomes == {"ok", "errorBody", "emptyErrorBody", "fetchFailed"}

\* What the promise of processFile settles to once the request has completed
FetchSettlement(call, i, outcome, score) ==
  IF outcome = "ok"
  THEN [call EXCEPT !.stage = "fulfilled",
                    !.value = Resolved(ResponseData(call, i, score))]
  ELSE [call EXCEPT
          !.stage = "rejected",
          !.reason =
            IF outcome = "errorBody" THEN Message("Image processing failed")
            ELSE IF outcome = "emptyErrorBody"
            THEN Message(IF call.protectionType = "image"
                         THEN "Failed to process image."
                         ELSE "Failed to process video.")
            ELSE Message("")]

\* The catch branch that shows the message but leaves appState as it is
\* (mutation).
SettleRejectedSilent(a, reason) ==
  [a EXCEPT !.error = IF reason.message = ""
                      THEN Message("An unknown error occurred.") ELSE reason]

\* catch (e): setError(e.message || "An unknown error occurred.");
\* setAppState("error")
SettleRejected(a, reason) ==
  [a EXCEPT !.error = IF reason.message = ""
                      THEN Message("An unknown error occurred.") ELSE reason,
            !.appState = "error"]

\* The statements after the await of handleProcessImage and of
\* handleProcessVideo
SettleFulfilled(a, kind, value) ==
  IF kind = "image"
  THEN [a EXCEPT !.processedImageUri = value.processedUri,
                 !.fileHash = value.hash,
                 !.protectionScore = value.protectionScore,
                 !.appState = "success"]
  ELSE [a EXCEPT !.processedVideoUri = value.processedUri,
                 !.fileHash = value.hash,
                 !.appState = "success"]

Settled(call) == call.stage \in {"fulfilled", "rejected"}

\* A continuation of an await is queued: it runs before any other event
JobPending == \E i \in 1..Len(calls) : Settled(calls[i])

AppInit ==
  /\ app = InitialApp
  /\ calls = <<>>
  /\ img = None /\ orig = None /\ seedValue = 0
  /\ first = None /\ last = None /\ ncalls = 0
  /\ em = None /\ emBefore = None /\ ex = None
  /\ PostIdle

AppFrame == UNCHANGED <<labVars, embedVars, postVars>>

\* A tab other than the selected one is clicked; the tabs are always shown
TabChange(value) ==
  /\ ~JobPending
  /\ value # app.protectionType
  /\ app' = handleTabChange(app, value)
  /\ UNCHANGED calls
  /\ AppFrame

\* A file is chosen in the uploader, which the idle state shows
FileChosen(f) ==
  /\ ~JobPending
  /\ app.appState = "idle"
  /\ app' = handleFileChange(app, ValidatedFile(app, f))
  /\ UNCHANGED calls
  /\ AppFrame

\* Clear, Protect Another, Try again: onClick={resetState}
ResetClicked ==
  /\ ~JobPending
  /\ app.appState \in {"file-loaded", "success", "error"}
  /\ app' = resetState(app)
  /\ UNCHANGED calls
  /\ AppFrame

\* Protect Image / Register Video Fingerprint: the button of the protection
\* type, shown in the file-loaded state
ProcessClicked ==
  /\ ~JobPending
  /\ app.appState = "file-loaded"
  /\ app.file # Null
  /\ Len(calls) < MaxRequests
  /\ app' = BeginProcessing(app)
  /\ calls' = Append(calls, NewCall(app, app.protectionType))
  /\ AppFrame

\* reader.onload: the file is read and the request is sent
ReaderOnload(i) ==
  /\ ~JobPending
  /\ calls[i].stage = "reading"
  /\ calls' = [calls EXCEPT ![i].stage = "fetching"]
  /\ UNCHANGED app
  /\ AppFrame

\* reader.onerror: reject(new Error("Failed to read file."))
ReaderOnerror(i) ==
  /\ ~JobPending
  /\ calls[i].stage = "reading"
  /\ calls' = [calls EXCEPT ![i].stage = "rejected",
                            ![i].reason = Message("Failed to read file.")]
  /\ UNCHANGED app
  /\ AppFrame

\* The request completes: 2xx, non-2xx or a failed fetch
FetchCompletes(i, outcome, score) ==
  /\ ~JobPending
  /\ calls[i].stage = "fetching"
  /\ calls' = [calls EXCEPT ![i] = FetchSettlement(calls[i], i, outcome, score)]
  /\ UNCHANGED app
  /\ AppFrame

\* The handler resumes after its await
Settle(i) ==
  /\ Settled(calls[i])
  /\ app' = IF calls[i].stage = "fulfilled"
            THEN SettleFulfilled(app, calls[i].kind, calls[i].value)
            ELSE SettleRejected(app, calls[i].reason)
  /\ calls' = [calls EXCEPT ![i].stage = "handled"]
  /\ AppFrame

Resume == \E i \in 1..Len(calls) : Settle(i)

AppNext ==
  \/ \E value \in ProtectionTypes : TabChange(value)
  \/ \E f \in Files : FileChosen(f)
  \/ ResetClicked
  \/ ProcessClicked
  \/ \E i \in 1..Len(calls) : ReaderOnload(i)
  \/ \E i \in 1..Len(calls) : ReaderOnerror(i)
  \/ \E i \in 1..Len(calls), outcome \in FetchOutcomes, score \in ResponseScores :
       FetchCompletes(i, outcome, score)
  \/ Resume

AppSpec == AppInit /\ [][AppNext]_vars

\* The job queue is drained: a handler whose promise has settled resumes
AppFairSpec == AppSpec /\ WF_vars(Resume)

(***************************************************************************)
(* Properties.                                                             *)
(***************************************************************************)
Capacity(e) == e.totalPixels * 3
Fits(e) == WatermarkLength(e.text) <= Capacity(e)

\* The indices of the R, G and B samples of a buffer of n pixels
RgbIndices(n, channels) == {p * channels + j : p \in 0..(n - 1), j \in 0..2}

\* The requests that ended with HTTP 200
Succeeded == {id \in Requests : reqs[id].pc = "done" /\ reqs[id].response.status = 200}

\* The bytes a data URI carries after its comma
BytesOfUri(uri) == Base64Decode(SplitSecond(uri))

\* An object without the property key
RemoveField(obj, key) == SelectSeq(obj, LAMBDA kv : kv[1] # key)

\* The canonical bytes of a receipt: its properties without the signature,
\* serialised with the keys in ascending order
CanonicalBytes(receipt) ==
  JsonStringify(RemoveField(receipt, K_signature),
                SortKeys(ObjectKeys(RemoveField(receipt, K_signature))))

\* The verifier of a receipt: removes the signature, serialises the rest
\* with sorted keys and checks the signature against receipt.public_key
VerifyBytes(receipt, bytes) ==
  Ed25519Verify(HexDecode(Field(receipt, K_public_key)), bytes,
                HexDecode(Field(receipt, K_signature)))

VerifyReceipt(receipt) == VerifyBytes(receipt, CanonicalBytes(receipt))

\* The texts that differ from text in exactly the byte at position i
FlipByte(text, i) == {[text EXCEPT ![i] = b] : b \in {text[i] + 1, text[i] - 1}}

\* C1: in every run of POST that ends with HTTP 200, receipt.final_sha256 is
\* the SHA-256 of the bytes carried by processedImageUri, and the hash field
\* of the response equals receipt.final_sha256.
C1_FinalHashMatchesReturnedBytes ==
  \A id \in Succeeded :
    LET response == reqs[id].response
    IN /\ Field(response.receipt, K_final_sha256)
            = sha256(BytesOfUri(response.processedImageUri))
       /\ response.hash = Field(response.receipt, K_final_sha256)

\* C1 witness: a request has ended with HTTP 200, the watermark changed the
\* pixels, and the file returned hashes to another value than the
\* shielded-only file whose hash the watermark carries.
C1_Witness ==
  \E id \in Succeeded :
    /\ reqs[id].preliminaryHash # reqs[id].response.hash
    /\ reqs[id].bitsWritten > 0
    /\ BytesOfUri(reqs[id].response.processedImageUri) = reqs[id].finalImageBytes

\* text.includes(part)
Contains(text, part) ==
  \E i \in 1..(Len(text) - Len(part) + 1) : SubSeq(text, i, i + Len(part) - 1) = part

\* The JSON text of the key of the signature property
SignatureKeyText == <<34>> \o K_signature \o <<34, 58>>

\* C2 (as claimed): the bytes signPayload signs are the serialisation of the
\* receipt without its signature property, so they hold no "signature" key
\* and do not depend on the value that property held during the call.
C2_SignedBytesExcludeSignature ==
  \A id \in Succeeded :
    /\ ~Contains(reqs[id].signedMessage, SignatureKeyText)
    /\ reqs[id].signedMessage = CanonicalBytes(reqs[id].response.receipt)

\* C3 (as claimed): every receipt POST returns verifies (signature removed,
\* keys sorted, Ed25519 against receipt.public_key), and no text that differs
\* from the canonical bytes in one byte verifies.
C3_ReceiptVerifies ==
  \A id \in Succeeded :
    LET receipt == reqs[id].response.receipt
    IN /\ VerifyReceipt(receipt)
       /\ \A i \in 1..Len(CanonicalBytes(receipt)) :
            \A changed \in FlipByte(CanonicalBytes(receipt), i) :
              ~VerifyBytes(receipt, changed)

\* C10 (as claimed): without FACEGUARD_MASTER_KEY in the environment no other
\* secret takes its place, no signing key exists, no request derives a seed
\* and no request returns a receipt.
C10_AbsentSecretIsFatal ==
  envMasterKey = UndefinedV
    => /\ MASTER_KEY = UndefinedV
       /\ privateKey.privateKey = UndefinedV
       /\ \A id \in Requests :
            /\ reqs[id].seed = <<>>
            /\ reqs[id].response.status # 200

\* C4: watermark round trip.  Whenever the payload (eight bits per character
\* plus the checksum byte) fits the capacity width*height*3, replaying the
\* draws on the buffer embedInvisibleWatermark produced reads the payload
\* bits one after the other, and at the end has recovered every payload
\* character and a checksum byte that matches them.
C4_WatermarkRoundTrip ==
  (ex # None /\ Fits(em))
    => /\ Len(ex.out) > 0
            => ex.out[Len(ex.out)]
                 = WatermarkBit(em.text, em.checksum, Len(ex.out) - 1)
       /\ ex.pc = "done"
            => /\ Len(ex.out) = WatermarkLength(em.text)
               /\ BytesOf(ex.out) = Append(em.text, em.checksum)
               /\ BytesOf(ex.out)[Len(em.text) + 1]
                    = Checksum(SubSeq(BytesOf(ex.out), 1, Len(em.text)))

\* C4 witness: an extraction has finished on an image whose capacity is
\* exactly the payload length, after an embedding that changed the buffer.
C4_Witness ==
  /\ ex # None /\ ex.pc = "done"
  /\ WatermarkLength(em.text) = Capacity(em)
  /\ em.pixels # emBefore

\* C5 (as claimed): a payload of exactly the capacity is written completely,
\* and a payload above the capacity makes the call fail without writing: the
\* call never completes normally and the buffer keeps its contents.
C5_CapacityBoundary ==
  /\ (em.pc = "done" /\ Fits(em)) => em.bitIndex = WatermarkLength(em.text)
  /\ ~Fits(em) => (em.pc # "done" /\ em.bitIndex = 0 /\ em.pixels = emBefore)

\* C6: on a 4-channel buffer no call of applyAiShielding (either aggression
\* level) or embedInvisibleWatermark changes an alpha sample.
C6_AlphaUntouched ==
  img.channels = 4
    => \A p \in 0..(img.width * img.height - 1) :
         img.pixels[4 * p + 4] = orig[4 * p + 4]

\* C6 witness: a 4-channel buffer that applyAiShielding and then
\* embedInvisibleWatermark have both changed.
C6_Witness ==
  /\ img.channels = 4
  /\ first # None /\ first.fn = "applyAiShielding" /\ first.after # first.before
  /\ last.fn = "embedInvisibleWatermark" /\ last.after # last.before

SameShieldInputs(a, b) ==
  /\ a.fn = "applyAiShielding" /\ b.fn = "applyAiShielding"
  /\ a.before = b.before /\ a.seed = b.seed /\ a.aggression = b.aggression

\* C7: two applyAiShielding calls on equal inputs (buffer contents, width,
\* height, channels, seed, aggression) leave equal buffers, whatever was
\* called in between.
C7_ShieldDeterministic ==
  (first # None /\ last # None /\ SameShieldInputs(first, last))
    => first.after = last.after

\* C7 witness: the third call repeats the inputs of the first one, and the
\* call changed the buffer.
C7_Witness ==
  /\ ncalls = 3 /\ first # None /\ last # None
  /\ SameShieldInputs(first, last)
  /\ first.after # first.before

\* C8 (as claimed): every applyAiShielding call on a buffer of at least one
\* pixel changes at least one R, G or B sample.
C8_ShieldNonIdentity ==
  (last # None /\ last.fn = "applyAiShielding" /\ img.channels >= 3
     /\ img.width * img.height >= 1)
    => \E i \in RgbIndices(img.width * img.height, img.channels) :
         last.after[i + 1] # last.before[i + 1]

\* C9 (as claimed): an applyAiShielding call with fewer than 3 channels is
\* rejected with an error and leaves the buffer as it was.
C9_ShieldRejectsFewChannels ==
  (last # None /\ last.fn = "applyAiShielding" /\ img.channels < 3)
    => (last.threw /\ last.after = last.before)


\* The key pair the module derives from its secret
ServerKeyPair == Ed25519KeyPair(Sha256Digest(MASTER_KEY))

\* The requests that have been answered
Answered == {id \in Requests : reqs[id].pc = "done"}

\* C11: when the key pair could not be created when the module was loaded,
\* every answered request carries an error status and no receipt; and no
\* HTTP 200 response carries a receipt whose signature is absent, is the
\* placeholder 'pending', or is not the signature the key derived from the
\* server secret makes for the signed message.
C11_NoReceiptWithoutKey ==
  /\ privateKey.privateKey = UndefinedV
       => \A id \in Answered :
            /\ reqs[id].response.status \in {400, 429, 500}
            /\ "receipt" \notin DOMAIN reqs[id].response
  /\ \A id \in Succeeded :
       LET signature == Field(reqs[id].response.receipt, K_signature)
       IN /\ signature # UndefinedV
          /\ signature # Pending
          /\ signature = HexOf(Ed25519Sign(ServerKeyPair.privateKey,
                                           reqs[id].signedMessage))

\* C11 witness: the module holds no key pair, and a request that went
\* through shielding, embedding and encoding was answered with HTTP 500.
C11_Witness ==
  /\ privateKey.privateKey = UndefinedV
  /\ \E id \in Answered :
       /\ reqs[id].response.status = 500
       /\ reqs[id].finalImageBytes # <<>>
       /\ reqs[id].bitsWritten > 0

\* The receipt with final_sha256 set to the given text
WithFinalHash(receipt, hash) == SetField(receipt, K_final_sha256, hash)

\* The hash of the encoded file of a buffer of a request, at a quality
EncodedHash(r, pixels, quality) ==
  sha256(JpegEncode(pixels, r.width, r.height, r.channels, quality))

\* Pass 1 of the two-pass protocol for a request: the placeholder payload is
\* embedded into a copy of the pre-watermark shielded pixels
PassOnePixels(r) ==
  embedInvisibleWatermark(r.preWatermarkPixels, r.width, r.height,
                          WithFinalHash(r.receipt, Pending)).pixels

\* Pass 2: the payload carrying the fragment of h1 is embedded into a fresh
\* copy of the pre-watermark shielded pixels
PassTwoPixels(r, h1) ==
  embedInvisibleWatermark(r.preWatermarkPixels, r.width, r.height,
                          WithFinalHash(r.receipt, h1)).pixels

\* C12 (as claimed): POST follows the two-pass hash protocol.  The hash whose
\* fragment the watermark of the returned image carries is H1, the hash of
\* the encoded file of pixels that hold the placeholder watermark; the
\* returned pixels are the pre-watermark shielded pixels with the H1 payload
\* embedded; and final_sha256 is H2, the hash of their encoded file.
C12_TwoPassHashProtocol ==
  \A id \in Succeeded :
    LET r == reqs[id]
    IN \E quality \in {JpegDefaultQuality, FinalJpegQuality} :
         LET h1 == EncodedHash(r, PassOnePixels(r), quality)
         IN /\ HashPayload(r.preliminaryHash) = HashPayload(h1)
            /\ r.shieldedPixels = PassTwoPixels(r, h1)
            /\ Field(r.response.receipt, K_final_sha256)
                 = EncodedHash(r, PassTwoPixels(r, h1), FinalJpegQuality)

\* The hash of the final bytes of a request of the two-pass handler differs
\* from the hash of pass 1 that the receipt held
HashMismatch(r) == sha256(r.finalImageBytes) # r.finalHash

\* C13: in the two-pass handler a request answered with HTTP 200 has called
\* signPayload once more after the first signature exactly when the hash of
\* the final bytes differed from receipt.final_sha256, and never more than
\* once; and the final_sha256 of every receipt returned with HTTP 200, and
\* the hash field of the response, is the SHA-256 of the returned bytes, so
\* that no mismatch outlasts the correction.
C13_OneCorrectiveResign ==
  /\ \A id \in Requests : reqs[id].signs \in {0, 1, 2}
  /\ \A id \in Succeeded :
       \E returned \in {BytesOfUri(reqs[id].response.processedImageUri)} :
         /\ returned = reqs[id].finalImageBytes
         /\ reqs[id].signs = (IF HashMismatch(reqs[id]) THEN 2 ELSE 1)
         /\ Field(reqs[id].response.receipt, K_final_sha256) = sha256(returned)
         /\ reqs[id].response.hash = Field(reqs[id].response.receipt, K_final_sha256)

\* C13 witness: a request was answered with HTTP 200 after a mismatch and
\* one corrective signature, which replaced the first one.
C13_Witness ==
  \E id \in Succeeded :
    /\ HashMismatch(reqs[id])
    /\ reqs[id].signs = 2
    /\ reqs[id].preWatermarkedBuffer # reqs[id].finalImageBytes
    /\ Field(reqs[id].response.receipt, K_final_sha256) # reqs[id].finalHash

\* The R, G and B samples of a buffer, pixel by pixel
RgbSamples(pixels, channels) ==
  [i \in 1..((Len(pixels) \div channels) * 3) |->
     pixels[((i - 1) \div 3) * channels + ((i - 1) % 3) + 1]]

\* The R, G and B samples a decoder reads from an encoded file
DecodedSamples(file) == RgbSamples(JimpRead(file).data, 4)

\* C14 (as claimed): in every run of POST the watermark is embedded after
\* the last perturbation, and what happens between the embedding and the
\* response changes no pixel value: the returned file decodes to the R, G
\* and B samples the buffer held when embedInvisibleWatermark returned.
C14_NoLossAfterEmbedding ==
  \A id \in Succeeded :
    /\ reqs[id].shieldedImageForHash
         = JpegEncode(reqs[id].preWatermarkPixels, reqs[id].width, reqs[id].height,
                      reqs[id].channels, JpegDefaultQuality)
    /\ DecodedSamples(BytesOfUri(reqs[id].response.processedImageUri))
         = RgbSamples(reqs[id].shieldedPixels, reqs[id].channels)

\* C15: embedInvisibleWatermark is idempotent.  When the call is repeated,
\* with the same seed and payload, on the buffer an earlier call produced,
\* and the payload fits the capacity, no write of the repeated call changes
\* the buffer, and the call writes the whole payload again.
C15_EmbedIdempotent ==
  (ncalls > 0 /\ Fits(em))
    => /\ em.pixels = emBefore
       /\ em.pc = "done" => em.bitIndex = WatermarkLength(em.text)

\* C15 witness: a repeated call has ended on a buffer of 16 x 15 pixels,
\* whose capacity is exactly the payload length and whose contents the
\* first call had changed.
C15_Witness ==
  /\ ncalls > 0 /\ em.pc = "done"
  /\ WatermarkLength(em.text) = Capacity(em)
  /\ em.bitIndex = WatermarkLength(em.text)
  /\ em.pixels # Gradient(Len(em.pixels))

\* C16: the key pair is read-only once the module is loaded.  No step of
\* any request, whatever its outcome, and no timer changes privateKey or
\* publicKeyHex, and every receipt returned with HTTP 200 carries the
\* publicKeyHex of the module as its public_key.
C16_KeyPairReadOnly ==
  [][/\ privateKey' = privateKey
     /\ publicKeyHex' = publicKeyHex
     /\ \A id \in Requests :
          (reqs'[id].pc = "done" /\ reqs'[id].response.status = 200)
            => Field(reqs'[id].response.receipt, K_public_key) = publicKeyHex]_vars

\* C16 witness: two requests returned receipts, both with the public key
\* the module derived when it was loaded.
C16_Witness ==
  /\ publicKeyHex = HexOf(ServerKeyPair.publicKey)
  /\ \E a \in Succeeded, b \in Succeeded :
       /\ a # b
       /\ Field(reqs[a].response.receipt, K_seed) # Field(reqs[b].response.receipt, K_seed)
       /\ Field(reqs[a].response.receipt, K_public_key) = publicKeyHex
       /\ Field(reqs[b].response.receipt, K_public_key) = publicKeyHex

\* The response POST gives to a request that runs alone, from the image
\* bytes and MIME type of its body and the seed, timestamp and detections
\* it was given: steps 4 to 8 of the handler with no other request between
\* them.
SoloResponse(mimeType, originalImageBuffer, seed, timestamp, detections) ==
  LET decoded == SharpDecode(originalImageBuffer)
      whole == applyAiShielding(decoded.data, decoded.width, decoded.height,
                                decoded.channels, seed, "normal")
      faces == IF Len(detections) > 0
               THEN ShieldFaces(whole.pixels, decoded.width, decoded.height,
                                decoded.channels, seed, detections, 1)
               ELSE [threw |-> FALSE, pixels |-> whole.pixels]
      protectionScore == calculateProtectionScore(decoded.data, faces.pixels)
      hashed == SetPreliminaryHash(
                  InitialReceipt(sha256(originalImageBuffer), seed, timestamp,
                                 publicKeyHex, protectionScore, detections),
                  JpegEncode(faces.pixels, decoded.width, decoded.height,
                             decoded.channels, JpegDefaultQuality))
      embedded == embedInvisibleWatermark(faces.pixels, decoded.width, decoded.height,
                                          hashed)
      finalImageBytes == JpegEncode(embedded.pixels, decoded.width, decoded.height,
                                    decoded.channels, FinalJpegQuality)
      final == RecomputeFinalHash(hashed, finalImageBytes)
      signed == signPayload(final, privateKey)
  IN IF decoded.threw \/ faces.threw \/ signed.threw
     THEN ErrorResponse(500, ProcessingFailed)
     ELSE [status |-> 200,
           processedImageUri |-> DataUri(mimeType, finalImageBytes),
           hash |-> Field(final, K_final_sha256),
           receipt |-> SetField(final, K_signature, signed.signature),
           protectionScore |-> protectionScore,
           facesDetected |-> Len(detections) > 0]

\* The requests that were admitted, parsed and shielded, and then answered
Processed == {id \in Answered : reqs[id].finalImageBytes # <<>>}

\* C17: requests are isolated.  In every step, a request that has been
\* processed and answered holds the response it would have had running
\* alone with its image, seed, timestamp and detections; and a step of a
\* request after its admission changes nothing but that request: not the
\* other requests, not the key pair, not the rate-limit counter.
C17_RequestIsolation ==
  [][/\ \A id \in Processed' :
          reqs'[id].response
            = SoloResponse(reqs'[id].mimeType, reqs'[id].originalImageBuffer,
                           reqs'[id].seed, reqs'[id].timestamp, reqs'[id].detections)
     /\ \A id \in Requests :
          (reqs'[id] # reqs[id] /\ reqs[id].pc # "new")
            => /\ \A other \in Requests \ {id} : reqs'[other] = reqs[other]
               /\ ipRequestCounts' = ipRequestCounts
               /\ timers' = timers
               /\ privateKey' = privateKey
               /\ publicKeyHex' = publicKeyHex]_vars

\* C17 witness: a request was admitted, processed and answered with HTTP 200
\* while an earlier request, given other detections, was waiting between
\* its shielding and its embedding.
C17_Witness ==
  \E a \in Requests, b \in Succeeded :
    /\ a < b
    /\ reqs[a].pc = "embed"
    /\ reqs[a].detections # reqs[b].detections
    /\ reqs[a].seed # reqs[b].seed

\* The minimum of the boosted score: Math.max(85, ...)
MinimumScore == 85

\* C18 (as claimed): for every pair of buffers, of equal or different
\* lengths or identical, calculateProtectionScore returns an integer from
\* 0 to 100 that is not below the minimum score of 85.
C18_ScoreNeverBelowMinimum ==
  (last # None /\ last.fn = "calculateProtectionScore")
    => last.score \in MinimumScore..100

\* For buffers of equal length the score lies between the minimum and 99;
\* for buffers of different lengths it is 0.
ScoreByLength ==
  (last # None /\ last.fn = "calculateProtectionScore")
    => IF Len(last.before) = Len(last.after)
       THEN last.score \in MinimumScore..99
       ELSE last.score = 0

\* The number of bits of the payload embedInvisibleWatermark was given for a
\* request
PayloadBits(r) ==
  WatermarkLength(WatermarkText(WithFinalHash(r.receipt, r.preliminaryHash)))

\* C19 (as claimed): whenever POST returns an image into which the watermark
\* was written only in part, or not at all, because the payload exceeded
\* the capacity of the image, the protection_level of the returned receipt
\* is a degraded level, not the 'aggressive' of a fully watermarked image.
C19_DegradedLevelWhenPartial ==
  \A id \in Succeeded :
    reqs[id].bitsWritten < PayloadBits(reqs[id])
      => Field(reqs[id].response.receipt, K_protection_level) # Aggressive

\* The sum of charCode(i) * (i + 1) over the 0-based positions lo-1 .. hi-1
\* of the seed, not reduced, summed by halves
RECURSIVE PlainSum(_, _, _)
PlainSum(seed, lo, hi) ==
  IF lo > hi THEN 0
  ELSE IF lo = hi THEN seed[lo] * lo
  ELSE PlainSum(seed, lo, (lo + hi) \div 2) + PlainSum(seed, ((lo + hi) \div 2) + 1, hi)

\* The state in which a generator built from the seed starts
SeedState(seed) == PlainSum(seed, 1, Len(seed)) % 100000

\* The value a generator in state s returns, scaled to 0 .. n-1
DrawAt(s, n) == ScaleFloor(RandAt(s), n)

\* One iteration of the embedding loop replayed with a generator that is in
\* state r.s, advances by one at each draw and returns DrawAt: two draws,
\* then the position is skipped when used, and taken otherwise
ReplayIter(r, totalPixels, length) ==
  LET uniqueIndex == DrawAt(r.s, totalPixels) * 3 + DrawAt(r.s + 1, 3)
  IN IF uniqueIndex \in r.used
     THEN [r EXCEPT !.s = r.s + 2]
     ELSE [s |-> r.s + 2, used |-> r.used \cup {uniqueIndex}, bits |-> r.bits + 1,
           done |-> \/ r.bits + 1 >= length
                    \/ Cardinality(r.used \cup {uniqueIndex}) >= totalPixels * 3]

\* Up to 2^k replayed iterations, stopping when the loop ends
RECURSIVE ReplayBlock(_, _, _, _)
ReplayBlock(r, k, totalPixels, length) ==
  IF r.done THEN r
  ELSE IF k = 0 THEN ReplayIter(r, totalPixels, length)
  ELSE ReplayBlock(ReplayBlock(r, k - 1, totalPixels, length), k - 1,
                   totalPixels, length)

RECURSIVE ReplayRun(_, _, _)
ReplayRun(r, totalPixels, length) ==
  IF r.done THEN r ELSE ReplayRun(ReplayBlock(r, 6, totalPixels, length),
                                  totalPixels, length)

\* The number of draws the embedding loop makes from a generator that is
\* in state s: two draws per iteration, until the payload is written or
\* every position is used
ReplayDraws(s, used, bits, totalPixels, length) ==
  ReplayRun([s |-> s, used |-> used, bits |-> bits, done |-> bits >= length],
            totalPixels, length).s - s

\* The payload length of the receipt the laboratory embeds for a seed
LabPayloadBits(seed) ==
  WatermarkLength(WatermarkText(CHOOSE r \in LabReceipts : Field(r, K_seed) = seed))

\* C20: seeded PRNG replay.  For every seed, the 64-digit one included, the
\* initial state is the sum of charCode(i) * (i + 1) modulo 100000 and lies
\* in 0..99999 (stated where no call has been made yet).  Every draw
\* advances the state by one: applyAiShielding, which draws once per pixel,
\* leaves the state the seed gives plus the number of pixels, and
\* embedInvisibleWatermark leaves the state the seed gives plus the number
\* of draws of a generator replayed from the same seed, so that the two
\* generators start in the same state and agree at every draw index.
C20_SeededReplay ==
  /\ ncalls = 0
       => \A seed \in LabSeeds \cup {SampleHash} :
            /\ InitSeedValue(seed) = SeedState(seed)
            /\ SeedState(seed) \in 0..99999
  /\ (last # None /\ last.fn = "applyAiShielding")
       => seedValue = SeedState(last.seed) + img.width * img.height
  /\ (last # None /\ last.fn = "embedInvisibleWatermark")
       => \E s0 \in {SeedState(last.seed)} :
            seedValue = s0 + ReplayDraws(s0, {}, 0, img.width * img.height,
                                         LabPayloadBits(last.seed))

\* C20 witness: applyAiShielding and then embedInvisibleWatermark were
\* called with the same seed on a buffer of 2 x 2 pixels; the embedding
\* drew more often than twice per position, and the sum for the 64-digit
\* seed exceeds 100000 before it is reduced.
C20_Witness ==
  /\ first # None /\ last # None
  /\ first.fn = "applyAiShielding" /\ last.fn = "embedInvisibleWatermark"
  /\ first.seed = last.seed
  /\ img.width * img.height = 4
  /\ seedValue > SeedState(last.seed) + 2 * 12
  /\ PlainSum(SampleHash, 1, Len(SampleHash)) >= 100000

\* The object signPayload was given by a request answered with HTTP 200: the
\* returned receipt, with the placeholder where the signature was stored
SignedPayload(r) == SetField(r.response.receipt, K_signature, Pending)

\* The same properties inserted in the reverse order
ReverseObject(obj) == [i \in 1..Len(obj) |-> obj[Len(obj) + 1 - i]]

\* The same properties, the first n inserted last
RotateObject(obj, n) == SubSeq(obj, n + 1, Len(obj)) \o SubSeq(obj, 1, n)

\* Where "key": starts in a JSON text that holds it
KeyPosition(text, key) ==
  CHOOSE i \in 1..Len(text) :
    SubSeq(text, i, i + Len(key) + 2) = <<34>> \o key \o <<34, 58>>

\* C21: the bytes signPayload signs depend only on the set of properties of
\* the receipt.  The receipt of every request answered with HTTP 200, with
\* its properties inserted in reverse or rotated order, serialises to the
\* bytes that were signed and gets the signature that was returned; and in
\* those bytes the keys appear in ascending lexicographic order.
C21_CanonicalOrder ==
  \A id \in Succeeded :
    \E payload \in {SignedPayload(reqs[id])} :
      /\ \A other \in {ReverseObject(payload)}
                        \cup {RotateObject(payload, n) : n \in 1..(Len(payload) - 1)} :
           \E signed \in {signPayload(other, privateKey)} :
             /\ ~signed.threw
             /\ signed.message = reqs[id].signedMessage
             /\ signed.signature = Field(reqs[id].response.receipt, K_signature)
      /\ \A i \in 1..Len(payload), j \in 1..Len(payload) :
           LexLess(payload[i][1], payload[j][1])
             => KeyPosition(reqs[id].signedMessage, payload[i][1])
                  < KeyPosition(reqs[id].signedMessage, payload[j][1])

\* C21 witness: a receipt was signed whose properties were not inserted in
\* ascending order of their keys, and whose reversal is another sequence of
\* the same eleven properties.
C21_Witness ==
  \E id \in Succeeded :
    /\ Len(SignedPayload(reqs[id])) = 11
    /\ ObjectKeys(SignedPayload(reqs[id])) # SortKeys(ObjectKeys(SignedPayload(reqs[id])))
    /\ ReverseObject(SignedPayload(reqs[id])) # SignedPayload(reqs[id])
    /\ signPayload(ReverseObject(SignedPayload(reqs[id])), privateKey).message
         = reqs[id].signedMessage

\* The latest call was applyAiShielding on a buffer of at least 3 channels
ShieldedLast == last # None /\ last.fn = "applyAiShielding" /\ img.channels >= 3

\* What layer 1 of the latest applyAiShielding call left: the buffer the
\* copy of layer 2 was taken from, and the accumulator
NoisyOfLast ==
  NoiseLayer(last.before, 0, InitSeedValue(last.seed), img.channels,
             Strength(last.aggression).noise)

\* What layer 2 left: the buffer the copy of layer 3 was taken from
ShiftedOfLast ==
  ShiftStage(NoisyOfLast.pixels, img.width, img.height, img.channels,
             Strength(last.aggression).shift)

\* The sample layer 2 stores in channel ch of pixel k when it reads a buffer
ShiftSource(buffer, k, ch, shift) ==
  Get(buffer,
      IF ch = 0
      THEN ShiftRSrcIndex(k % img.width, k \div img.width, img.width, img.height,
                          img.channels, shift)
      ELSE IF ch = 1 THEN k * img.channels + 1
      ELSE ShiftBSrcIndex(k % img.width, k \div img.width, img.width, img.height,
                          img.channels, shift) + 2)

\* The sample layer 3 stores in channel ch of pixel k when it reads a buffer
WarpSource(buffer, k, ch, s, warpStrength) ==
  Get(buffer,
      WarpSrcIndex(k % img.width, k \div img.width, img.width, img.height,
                   img.channels, s, warpStrength) + ch)

\* C22: in applyAiShielding the chromatic-shift layer and the micro-warp
\* layer read only the copy of the buffer taken before the layer wrote
\* anything: every R, G and B sample layer 2 leaves is the sample at its
\* source position in what layer 1 left, and every sample layer 3 leaves is
\* the sample at its source position in what layer 2 left.
C22_LayersReadSnapshot ==
  ShieldedLast
    => \E noisy \in {NoisyOfLast} :
         \E shifted \in {ShiftedOfLast} :
           \A k \in 0..(img.width * img.height - 1), ch \in 0..2 :
             /\ shifted[k * img.channels + ch + 1]
                  = ShiftSource(noisy.pixels, k, ch, Strength(last.aggression).shift)
             /\ last.after[k * img.channels + ch + 1]
                  = WarpSource(shifted, k, ch, noisy.seedValue,
                               Strength(last.aggression).warp)

\* C22 witness: applyAiShielding ran on the row of 5 pixels, where layer 2
\* reads for the last pixel a position it has already written with another
\* value: reading the buffer being written would have given another result.
C22_Witness ==
  /\ ShieldedLast
  /\ img.width = 5
  /\ ShiftedOfLast # NoisyOfLast.pixels
  /\ ShiftLayerInPlace(NoisyOfLast.pixels, NoisyOfLast.pixels, 0, img.width,
                       img.height, img.channels, Strength(last.aggression).shift)
       # ShiftedOfLast

\* The sample of channel ch of the pixel (x, y) of the lab image in a buffer
SampleAt(buffer, x, y, ch) == Get(buffer, (y * img.width + x) * img.channels + ch)

\* C23 (as claimed): in the chromatic-shift layer, for every pixel (x, y)
\* the new R is the R layer 1 left at (min(width-1, x+shift), y), the new B
\* is the B layer 1 left at (max(0, x-shift), y), both in the row y, and G
\* keeps its value.
C23_ShiftWithinRow ==
  ShieldedLast
    => \E noisy \in {NoisyOfLast.pixels} :
         \E shifted \in {ShiftedOfLast} :
           \E shift \in {Strength(last.aggression).shift} :
             \A x \in 0..(img.width - 1), y \in 0..(img.height - 1) :
               /\ SampleAt(shifted, x, y, 0)
                    = SampleAt(noisy, Min(img.width - 1, x + shift), y, 0)
               /\ SampleAt(shifted, x, y, 1) = SampleAt(noisy, x, y, 1)
               /\ SampleAt(shifted, x, y, 2)
                    = SampleAt(noisy, Max(0, x - shift), y, 2)

\* In images of one row the layer does what C23 says.
ShiftWithinSingleRow == img.height = 1 => C23_ShiftWithinRow

\* The sample index of the position pixelNum * 3 + channelNum
SampleOfPosition(uniqueIndex) == (uniqueIndex \div 3) * 4 + (uniqueIndex % 3)

\* The position the two draws made in PRNG state s select
DrawnPosition(s, totalPixels) == DrawAt(s, totalPixels) * 3 + DrawAt(s + 1, 3)

\* The step is one pass through the body of the embedding loop
OneIteration ==
  /\ em.pc = "loop"
  /\ em'.seedValue = em.seedValue + 2
  /\ em'.text = em.text /\ em'.seed = em.seed

\* C24: at every point of the embedInvisibleWatermark loop the number of
\* accepted positions equals the number of payload bits written.  A pass
\* whose draw collides with a used position or falls outside the buffer
\* writes nothing and advances neither; a pass whose draw is accepted adds
\* one new position, inside the buffer, stores the payload bit that is due
\* in the least significant bit of its sample and leaves every other sample
\* as it was, so that the k-th accepted position holds the k-th bit.
C24_LoopInvariant ==
  [][/\ Cardinality(em'.usedIndices) = em'.bitIndex
     /\ OneIteration
          => \E u \in {DrawnPosition(em.seedValue, em.totalPixels)} :
               IF u \in em.usedIndices \/ SampleOfPosition(u) >= Len(em.pixels)
               THEN /\ em'.pixels = em.pixels
                    /\ em'.bitIndex = em.bitIndex
                    /\ em'.usedIndices = em.usedIndices
               ELSE /\ em'.usedIndices = em.usedIndices \cup {u}
                    /\ em'.bitIndex = em.bitIndex + 1
                    /\ em'.pixels[SampleOfPosition(u) + 1] % 2
                         = WatermarkBit(em.text, em.checksum, em.bitIndex)
                    /\ \A i \in 1..Len(em.pixels) :
                         i # SampleOfPosition(u) + 1 => em'.pixels[i] = em.pixels[i]]_vars

\* C24 witness: the loop is under way on a buffer of 16 x 15 pixels; it has
\* written bits and has rejected draws that collided with used positions.
C24_Witness ==
  /\ em.pc = "loop"
  /\ em.totalPixels = 240
  /\ em.bitIndex > 100
  /\ em.seedValue - InitSeedValue(em.seed) > 2 * em.bitIndex
  /\ DrawnPosition(em.seedValue, em.totalPixels) \in em.usedIndices

\* The sample indices (from 1) of the positions the call has accepted
AcceptedSamples == {SampleOfPosition(u) + 1 : u \in em.usedIndices}

\* C25: embedInvisibleWatermark changes nothing but least significant bits
\* at accepted positions.  When the call has returned, against the buffer it
\* was given, every sample keeps its upper seven bits, a sample that is at
\* no accepted position keeps its value, and the number of samples written
\* is at most the payload bit length.
C25_OnlyLsbChanged ==
  (em.pc = "done" /\ ex = None)
    => /\ \A i \in 1..Len(em.pixels) : em.pixels[i] \div 2 = emBefore[i] \div 2
       /\ \E accepted \in {AcceptedSamples} :
            /\ \A i \in 1..Len(em.pixels) :
                 em.pixels[i] # emBefore[i] => i \in accepted
            /\ Cardinality(accepted) <= WatermarkLength(em.text)
            /\ Cardinality(accepted) = em.bitIndex

\* C25 witness: a call has ended that wrote the whole payload into a buffer
\* of 16 x 16 pixels and changed the lowest bit of samples greater than 1.
C25_Witness ==
  /\ em.pc = "done" /\ ex = None
  /\ em.totalPixels = 256
  /\ em.bitIndex = WatermarkLength(em.text)
  /\ \E i \in 1..Len(em.pixels) :
       /\ emBefore[i] > 1
       /\ em.pixels[i] # emBefore[i]

\* The requests of the two-pass handler whose pass 1 has been hashed
HashedOnce == {id \in Requests : reqs[id].pc \in {"pass2", "done"} /\ Len(reqs[id].finalHash) = 64}

\* The receipt of a request as pass 1 embeds it, and as pass 2 embeds it
PassOneReceipt(r) == SetField(r.receipt, K_final_sha256, Pending)
PassTwoReceipt(r) == SetField(r.receipt, K_final_sha256, r.finalHash)

\* The payload of embedInvisibleWatermark of route.ts has the same number of
\* bits for the placeholder and for the 64-digit hash
RoutePayloadLengthFixed ==
  \A id \in HashedOnce :
    WatermarkLength(WatermarkText(PassOneReceipt(reqs[id])))
      = WatermarkLength(WatermarkText(PassTwoReceipt(reqs[id])))

\* The same for the embedInvisibleWatermark of the flow, which the two-pass
\* handler calls twice
FlowPayloadLengthFixed ==
  \A id \in HashedOnce :
    WatermarkLength(FlowWatermarkText(PassOneReceipt(reqs[id])))
      = WatermarkLength(FlowWatermarkText(PassTwoReceipt(reqs[id])))

\* C26 (as claimed): in each embedder variant the bitstring built for the
\* placeholder 'pending' has exactly as many bits as the bitstring built
\* for a 64-digit final_sha256 with the same seed.
C26_PayloadLengthFixed == RoutePayloadLengthFixed /\ FlowPayloadLengthFixed

\* The flow's payload is 72 bits shorter for the placeholder.
FlowPayloadShorterWhenPending ==
  \A id \in HashedOnce :
    WatermarkLength(FlowWatermarkText(PassTwoReceipt(reqs[id])))
      = WatermarkLength(FlowWatermarkText(PassOneReceipt(reqs[id]))) + 72

\* The count checkRateLimit reads for an address: ipRequestCounts.get(ip) || 0
StoredCount(counts, ip) == IF ip \in DOMAIN counts THEN counts[ip] ELSE 0

\* The admitted calls of an address whose callback has not run yet
PendingCallbacks(pending, ip) == IF ip \in DOMAIN pending THEN pending[ip] ELSE 0

\* The step is a callback of a timer
CallbackStep == \E ip \in DOMAIN timers : timers'[ip] < timers[ip]

\* C27: rate limiter in production mode.  After every step the stored count
\* of every address is between 0 and 20 and equals the number of admitted
\* calls of the address whose callback has not run yet.  A call is rejected
\* exactly when the count of its address is 20; a rejected call changes no
\* count and schedules no callback, an admitted call adds one to the count
\* of its address and schedules one callback.
C27_RateLimiter ==
  [][nodeEnv = "production"
       => /\ \A ip \in Ips :
               /\ StoredCount(ipRequestCounts', ip) \in 0..20
               /\ StoredCount(ipRequestCounts', ip) = PendingCallbacks(timers', ip)
          /\ ~CallbackStep
               => /\ last'.ok <=> StoredCount(ipRequestCounts, last'.ip) # 20
                  /\ ~last'.ok
                       => ipRequestCounts' = ipRequestCounts /\ timers' = timers
                  /\ last'.ok
                       => /\ StoredCount(ipRequestCounts', last'.ip)
                               = StoredCount(ipRequestCounts, last'.ip) + 1
                          /\ PendingCallbacks(timers', last'.ip)
                               = PendingCallbacks(timers, last'.ip) + 1
                          /\ \A ip \in Ips \ {last'.ip} :
                               StoredCount(ipRequestCounts', ip)
                                 = StoredCount(ipRequestCounts, ip)]_vars

\* C27 witness: in production a call was rejected for an address that has
\* 20 admitted calls outstanding, while the other address, whose callbacks
\* have all run, has a stored count of 0.
C27_Witness ==
  /\ nodeEnv = "production"
  /\ last # None /\ last.fn = "checkRateLimit" /\ ~last.ok
  /\ StoredCount(ipRequestCounts, last.ip) = 20
  /\ PendingCallbacks(timers, last.ip) = 20
  /\ \E ip \in DOMAIN ipRequestCounts : ip # last.ip /\ ipRequestCounts[ip] = 0

(***************************************************************************)
(* C28.  Termination of the placement loop.                                *)
(***************************************************************************)
LoopCapacity == em.totalPixels * 3

\* The call has left its loop having written min(payload bits, capacity) bits
StoppedFull ==
  /\ em.pc = "done"
  /\ em.bitIndex = Min(WatermarkLength(em.text), LoopCapacity)

\* The flow's call has thrown before its loop and has written nothing
ThrewBeforeLoop ==
  /\ em.pc = "threw"
  /\ em.variant = "flow"
  /\ WatermarkLength(em.text) > LoopCapacity
  /\ em.bitIndex = 0
  /\ em.pixels = emBefore

\* The outcome of the call by function and by capacity
StoppedOrThrew ==
  IF em.variant = "flow" /\ WatermarkLength(em.text) > LoopCapacity
  THEN ThrewBeforeLoop ELSE StoppedFull

C29_CompletionLeavesProcessing ==
  JobPending ~> (~JobPending /\ app.appState \in {"success", "error"})

\* A request that ended with a non-2xx response has been handled while the
\* component was processing, and the component shows the error
C29_Witness ==
  /\ Len(calls) > 0
  /\ calls[Len(calls)].stage = "handled"
  /\ calls[Len(calls)].reason = Message("Image processing failed")
  /\ app.appState = "error"
  /\ app.file = calls[Len(calls)].file
  /\ app.error = Message("Image processing failed")

(***************************************************************************)
(* C30.  Responses to requests started before resetState.                  *)
(***************************************************************************)
\* The value the latest call resolved with is the one the component stores
StoresResultOf(call) ==
  /\ call.stage = "handled"
  /\ call.value # Null
  /\ call.file = app.file
  /\ call.kind = app.protectionType
  /\ app.fileHash = call.value.hash
  /\ IF call.kind = "image"
     THEN /\ app.processedImageUri = call.value.processedUri
          /\ app.protectionScore = call.value.protectionScore
     ELSE app.processedVideoUri = call.value.processedUri

\* C30 as stated: a response to a request started before resetState ran
\* changes nothing: whenever appState is 'success' a file is loaded and the
\* stored uri, hash and score are those of the request started for that file
\* under the current protection type.
C30_SuccessBelongsToLoadedFile ==
  app.appState = "success" =>
    /\ app.file # Null
    /\ Len(calls) > 0
    /\ StoresResultOf(calls[Len(calls)])

\* The image request was under way when the tab was changed; its response
\* then put the component into 'success' with no file loaded
StaleSuccess ==
  /\ app.appState = "success"
  /\ app.file = Null
  /\ app.protectionType = "video"
  /\ app.processedImageUri # Null
=============================================================================
